---- MODULE Spec2Model ----
(***************************************************************************)
(* A model of the ledger node's submission pipeline and ledger state.      *)
(*                                                                         *)
(*  - SubmissionServer (components/submission_server/src/                  *)
(*    submission_server.rs): block handle, pending list, status map,       *)
(*    begin_block / end_block / cache_transaction / abort_block /          *)
(*    handle_transaction.  The ledger it drives (ledger::store, the        *)
(*    LedgerUpdate trait with start_block / apply_transaction /            *)
(*    finish_block / abort_block, and TxnEffect::compute_effect) is not    *)
(*    part of the sources at hand and is modelled from the specification.  *)
(*  - LedgerState (core/src/store/mod.rs): UTXO set, asset registry,       *)
(*    issuance counters, validate_transaction / apply_transaction.         *)
(***************************************************************************)
EXTENDS Integers, Sequences, FiniteSets, TLC

VARIABLES
    \* ---- SubmissionServer (submission_server.rs:36-46) ----
    block,            \* Option<LU::Block>: <<>> is None, <<b>> is Some(b)
    pending_txns,     \* Vec<(TxnTempSID, TxnHandle)>
    txn_status,       \* HashMap<TxnHandle, TxnStatus>
    block_capacity,   \* usize, fixed at construction
    committed_state,  \* the ledger behind Arc<RwLock<LU>>
    panicked,         \* "" while the server runs, else the panic that stopped it
    ret,              \* <<operation, "Ok" | "Err" | "Panic", handle>> of the last call
    called,           \* history: which of cache_transaction, begin_block and
                      \*          end_block/abort_block were called directly so far
    aborted,          \* history: handles cached in a block that was aborted,
                      \*          and not submitted again since
    at_begin          \* history: while a block is open, the committed ledger
                      \*          as it was before the begin_block that opened it

VARIABLES
    \* ---- LedgerState (core/src/store/mod.rs:43-52) ----
    txs,              \* Vec<Transaction>
    utxos,            \* HashMap<UtxoAddress, Utxo>
    tokens,           \* HashMap<AssetTokenCode, AssetToken>
    issuance_num,     \* HashMap<AssetTokenCode, u128>
    next_index,       \* NextIndex {tx_index, op_index, utxo_index}
    valid,            \* what the last validate_transaction returned
    consumed,         \* history: how often each address was listed as an
                      \*          input of an applied transfer
    produced,         \* history: how many outputs the applied operations made
    bad_creation,     \* history: the transaction validated last held an
                      \*          AssetCreation whose signature names a key
                      \*          other than the one that signed
    bad_input         \* history: what was wrong with the transfer inputs of the
                      \* transaction validated last

VARIABLES
    \* ---- Staking as DelegationOps::apply sees it ----
    staking,          \* the Staking instance
    dlg,              \* history: the last call of DelegationOps::apply
    amt               \* history: the last call of check_delegation_context

VARIABLES
    \* ---- the ABCI callbacks (abciapp/src/abci/server/callback/mod.rs) ----
    tx_history,       \* TX_HISTORY: the keys of the map
    pool,             \* POOL: the history writes spawned and not yet run
    td_height,        \* TENDERMINT_BLOCK_HEIGHT
    committed_height, \* the tendermint height of the committed ledger status
    phase,            \* where the consensus engine is in its callback sequence
    resp              \* history: the last callback and its response

VARIABLES
    \* ---- the lock around the ledger (committed_state: Arc<RwLock<LU>>) ----
    ledger_lock,      \* who holds shared and who holds exclusive access
    applying          \* the transaction cache_transaction is working on

VARIABLES
    \* ---- the locks the ABCI callbacks take, and the threads running them ----
    locks,            \* per lock: who holds shared and who holds exclusive access
    thread            \* per thread: the callback it runs and its position in it

srvVars == <<block, pending_txns, txn_status, block_capacity, committed_state,
             panicked, ret, called, aborted, at_begin>>

ledVars == <<txs, utxos, tokens, issuance_num, next_index, valid, consumed,
             produced, bad_creation, bad_input>>

dlgVars == <<staking, dlg, amt>>

abciVars == <<tx_history, pool, td_height, committed_height, phase, resp>>

lockVars == <<ledger_lock, applying>>

ordVars == <<locks, thread>>

vars == <<srvVars, ledVars, dlgVars, abciVars, lockVars, ordVars>>

(***************************************************************************)
(* Bounds of the model.                                                    *)
(***************************************************************************)
MaxCapacity == 2    \* block_capacity ranges over 0..MaxCapacity
MaxPending  == 2    \* cache_transaction is not called with this many pending
MaxTxnSID   == 2    \* no more than this many transactions are ever applied
MaxTxns     == 2    \* LedgerState: transactions applied
MaxOps      == 2    \* LedgerState: operations of a transaction
MaxInputs   == 2    \* LedgerState: inputs of a transfer
MaxOutputs  == 2    \* LedgerState: outputs of a transfer or an issuance

\* The no-replay tokens that make otherwise equal transactions distinct.
Nonces == {0, 1}

None == <<>>
Some(x) == <<x>>

(***************************************************************************)
(* Transactions as the server sees them.  kind "none" is                   *)
(* Transaction::default() (no operation), "create" is one AssetCreation,   *)
(* "issue" one AssetIssuance with a single output, "badsig" a transaction  *)
(* whose signature check fails.  nonce is the no-replay token.             *)
(***************************************************************************)
Txn(k, c, s, n) == [kind |-> k, code |-> c, seq |-> s, nonce |-> n]

Txns ==
    {Txn("none", 0, 0, n) : n \in Nonces}
    \cup {Txn("create", 1, 0, 0)}
    \cup {Txn("issue", 1, 1, 0)}
    \cup {Txn("badsig", 0, 0, 0)}

\* TxnHandle::new: hex(sha256(bincode(txn with TxnSID(0)))).  The encoding
\* lists the fields in order; the digest is taken to be collision free.
serialize_bincode(txn) == <<txn.kind, txn.code, txn.seq, txn.nonce>>

TxnHandle_new(txn) == <<"TxnHandle", serialize_bincode(txn)>>

NoHandle == <<"TxnHandle", <<>>>>

\* TxnStatus
Pending == <<"Pending">>
Committed(fin) == <<"Committed", fin[1], fin[2]>>

(***************************************************************************)
(* The ledger behind the server (LedgerUpdate + LedgerAccess).  Its code   *)
(* is not among the sources; it is modelled from the specification's       *)
(* four-phase block protocol: start_block, apply_transaction,              *)
(* finish_block, abort_block.                                              *)
(***************************************************************************)
Codes == {1}

LedgerInit ==
    [txn_count  |-> 0,
     tokens     |-> {},
     issuance   |-> [c \in Codes |-> 0],
     utxos      |-> {},
     block_open |-> FALSE]

\* TxnEffect::compute_effect: the checks that need no ledger state.
compute_effect(txn) == [ok |-> txn.kind # "badsig", effect |-> txn]

SetMax(S) == CHOOSE x \in S : \A y \in S : y <= x

\* The overlay: the committed state together with the block's effects so far.
BlockTokens(b) ==
    {b.txns[i].code : i \in {j \in 1..Len(b.txns) : b.txns[j].kind = "create"}}

OverlayTokens(l, b) == l.tokens \cup BlockTokens(b)

OverlaySeq(l, b, c) ==
    SetMax({l.issuance[c]}
           \cup {b.txns[i].seq : i \in {j \in 1..Len(b.txns) :
                                          /\ b.txns[j].kind = "issue"
                                          /\ b.txns[j].code = c}})

\* Asset replay rule and duplicate-asset rule against the overlay.
effect_valid(l, b, e) ==
    CASE e.kind = "create" -> e.code \notin OverlayTokens(l, b)
      [] e.kind = "issue"  -> /\ e.code \in OverlayTokens(l, b)
                              /\ e.seq > OverlaySeq(l, b, e.code)
      [] OTHER             -> TRUE

LU_start_block(l) ==
    [ok     |-> ~l.block_open,
     ledger |-> [l EXCEPT !.block_open = TRUE],
     block  |-> [txns |-> <<>>]]

\* On success one TxnTempSID is reserved from the per-block counter; on
\* failure the overlay is left as it was.
LU_apply_transaction(l, b, e) ==
    IF effect_valid(l, b, e)
    THEN [ok |-> TRUE, temp_sid |-> Len(b.txns),
          block |-> [b EXCEPT !.txns = Append(@, e)]]
    ELSE [ok |-> FALSE, temp_sid |-> 0, block |-> b]

\* The outputs a committed transaction produces, as
\* (txn_seq, op_index, output_index).
TxnOutputs(sid, e) == IF e.kind = "issue" THEN << <<sid, 0, 0>> >> ELSE <<>>

SeqRange(q) == {q[i] : i \in 1..Len(q)}

\* finish_block: the next TxnSID to each temp-SID in insertion order.
LU_finish_block(l, b) ==
    LET n == Len(b.txns)
        fin == [t \in 0..(n - 1) |->
                   <<l.txn_count + t, TxnOutputs(l.txn_count + t, b.txns[t + 1])>>]
    IN  [finalized |-> fin,
         ledger |->
            [txn_count  |-> l.txn_count + n,
             tokens     |-> OverlayTokens(l, b),
             issuance   |-> [c \in Codes |-> OverlaySeq(l, b, c)],
             utxos      |-> l.utxos \cup UNION {SeqRange(fin[t][2]) : t \in 0..(n - 1)},
             block_open |-> FALSE]]

LU_abort_block(l, b) == [l EXCEPT !.block_open = FALSE]

(***************************************************************************)
(* SubmissionServer.  Each operation is a function of the server's state   *)
(* s (a record of its fields) so that handle_transaction can be composed   *)
(* of begin_block, cache_transaction and end_block as in the code.  An     *)
(* operation returns [s, ok, handle]; a panic (a failed assert! or         *)
(* unwrap) leaves s.panicked set and stops the server.                     *)
(***************************************************************************)
Srv ==
    [block           |-> block,
     pending_txns    |-> pending_txns,
     txn_status      |-> txn_status,
     block_capacity  |-> block_capacity,
     committed_state |-> committed_state,
     panicked        |-> panicked]

\* SubmissionServer::new
new(ledger_state, capacity) ==
    [block           |-> None,
     pending_txns    |-> <<>>,
     txn_status      |-> <<>>,
     block_capacity  |-> capacity,
     committed_state |-> ledger_state,
     panicked        |-> ""]

get_txn_status(s, h) ==
    IF h \in DOMAIN s.txn_status THEN Some(s.txn_status[h]) ELSE None

all_commited(s) == s.pending_txns = <<>>

\* Variant of eligible_to_commit: the block counts as full only once it holds
\* more than block_capacity transactions.
eligible_to_commit_Exceeds(s) == Len(s.pending_txns) > s.block_capacity

eligible_to_commit(s) == Len(s.pending_txns) = s.block_capacity

\* HashMap::insert
Insert(m, k, v) == [x \in (DOMAIN m) \cup {k} |-> IF x = k THEN v ELSE m[x]]

begin_block(s) ==
    IF s.block # None
    THEN [s EXCEPT !.panicked = "begin_block: assert!(self.block.is_none())"]
    ELSE LET r == LU_start_block(s.committed_state)
         IN  IF ~r.ok
             THEN [s EXCEPT !.panicked = "begin_block: start_block().unwrap()"]
             ELSE [s EXCEPT !.block = Some(r.block),
                            !.committed_state = r.ledger]

\* Variant of the loop of end_block: a handle that the loop has already set
\* to Committed keeps its first value.
RECURSIVE DrainCommitted_KeepFirst(_, _, _)
DrainCommitted_KeepFirst(status, pend, fin) ==
    IF pend = <<>>
    THEN [status |-> status, panicked |-> ""]
    ELSE LET temp_sid == pend[1][1]
             handle   == pend[1][2]
         IN  IF temp_sid \notin DOMAIN fin
             THEN [status |-> status,
                   panicked |-> "end_block: finalized_txns.get(&txn_temp_sid).unwrap()"]
             ELSE DrainCommitted_KeepFirst(
                      IF handle \in DOMAIN status /\ status[handle][1] = "Committed"
                      THEN status
                      ELSE Insert(status, handle, Committed(fin[temp_sid])),
                      Tail(pend), fin)

\* The loop of end_block over pending_txns.drain(..): each status is set to
\* Committed(finalized[temp_sid]); a temp_sid that finish_block did not
\* return makes the unwrap panic, with the statuses set so far kept.
RECURSIVE DrainCommitted(_, _, _)
DrainCommitted(status, pend, fin) ==
    IF pend = <<>>
    THEN [status |-> status, panicked |-> ""]
    ELSE LET temp_sid == pend[1][1]
             handle   == pend[1][2]
         IN  IF temp_sid \notin DOMAIN fin
             THEN [status |-> status,
                   panicked |-> "end_block: finalized_txns.get(&txn_temp_sid).unwrap()"]
             ELSE DrainCommitted(Insert(status, handle, Committed(fin[temp_sid])),
                                 Tail(pend), fin)

end_block(s) ==
    IF s.block = None
    THEN [s |-> s, ok |-> FALSE, handle |-> NoHandle]
    ELSE LET f == LU_finish_block(s.committed_state, s.block[1])
             d == DrainCommitted(s.txn_status, s.pending_txns, f.finalized)
         IN  [s |-> [s EXCEPT !.block = None,
                              !.committed_state = f.ledger,
                              !.txn_status = d.status,
                              !.pending_txns = <<>>,
                              !.panicked = d.panicked],
              ok |-> d.panicked = "",
              handle |-> NoHandle]

\* Variant of cache_transaction: the new entry is put in front of the
\* pending list.
cache_transaction_PushFront(s, txn) ==
    IF s.block = None
    THEN [s |-> s, ok |-> FALSE, handle |-> NoHandle]
    ELSE LET handle == TxnHandle_new(txn)
             e == compute_effect(txn)
             a == LU_apply_transaction(s.committed_state, s.block[1], e.effect)
         IN  IF ~e.ok
             THEN [s |-> s, ok |-> FALSE, handle |-> NoHandle]
             ELSE IF ~a.ok
             THEN [s |-> [s EXCEPT !.block = Some(a.block)],
                   ok |-> FALSE, handle |-> NoHandle]
             ELSE [s |-> [s EXCEPT
                            !.block = Some(a.block),
                            !.pending_txns = <<(<<a.temp_sid, handle>>)>> \o @,
                            !.txn_status = Insert(@, handle, Pending)],
                   ok |-> TRUE, handle |-> handle]

\* Variant of cache_transaction: the Pending status is recorded as soon as
\* the handle is computed, before the effect is computed and applied.
cache_transaction_StatusFirst(s, txn) ==
    IF s.block = None
    THEN [s |-> s, ok |-> FALSE, handle |-> NoHandle]
    ELSE LET handle == TxnHandle_new(txn)
             e == compute_effect(txn)
             a == LU_apply_transaction(s.committed_state, s.block[1], e.effect)
             marked == [s EXCEPT !.txn_status = Insert(@, handle, Pending)]
         IN  IF ~e.ok \/ ~a.ok
             THEN [s |-> marked, ok |-> FALSE, handle |-> NoHandle]
             ELSE [s |-> [marked EXCEPT
                            !.block = Some(a.block),
                            !.pending_txns = Append(@, <<a.temp_sid, handle>>)],
                   ok |-> TRUE, handle |-> handle]

cache_transaction(s, txn) ==
    IF s.block = None
    THEN [s |-> s, ok |-> FALSE, handle |-> NoHandle]
    ELSE LET handle == TxnHandle_new(txn)
             e == compute_effect(txn)
             a == LU_apply_transaction(s.committed_state, s.block[1], e.effect)
         IN  IF ~e.ok
             THEN [s |-> s, ok |-> FALSE, handle |-> NoHandle]
             ELSE IF ~a.ok
             THEN [s |-> [s EXCEPT !.block = Some(a.block)],
                   ok |-> FALSE, handle |-> NoHandle]
             ELSE [s |-> [s EXCEPT
                            !.block = Some(a.block),
                            !.pending_txns = Append(@, <<a.temp_sid, handle>>),
                            !.txn_status = Insert(@, handle, Pending)],
                   ok |-> TRUE, handle |-> handle]

\* Variant of abort_block: the status map is cleared with the block.
abort_block_ClearsStatus(s) ==
    IF s.block = None
    THEN s
    ELSE [s EXCEPT !.block = None,
                   !.txn_status = <<>>,
                   !.committed_state = LU_abort_block(@, s.block[1])]

\* Variant of abort_block: the block is dropped without telling the ledger.
abort_block_NoLedgerAbort(s) ==
    IF s.block = None
    THEN s
    ELSE [s EXCEPT !.block = None]

abort_block(s) ==
    IF s.block = None
    THEN s
    ELSE [s EXCEPT !.block = None,
                   !.committed_state = LU_abort_block(@, s.block[1])]

\* Variant of handle_transaction: the block is never ended from here.
handle_transaction_NoEndBlock(s, txn) ==
    LET s1 == IF all_commited(s) THEN begin_block(s) ELSE s
    IN  IF s1.panicked # ""
        THEN [s |-> s1, ok |-> FALSE, handle |-> NoHandle]
        ELSE cache_transaction(s1, txn)

handle_transaction(s, txn) ==
    LET s1 == IF all_commited(s) THEN begin_block(s) ELSE s
    IN  IF s1.panicked # ""
        THEN [s |-> s1, ok |-> FALSE, handle |-> NoHandle]
        ELSE LET c == cache_transaction(s1, txn)
             IN  IF ~c.ok
                 THEN c
                 ELSE IF eligible_to_commit(c.s)
                      THEN [s |-> end_block(c.s).s, ok |-> TRUE, handle |-> c.handle]
                      ELSE c

(***************************************************************************)
(* LedgerState (core/src/store/mod.rs).  L is the record of its fields;    *)
(* contracts and policies are never written and are left out.  op_index    *)
(* and utxo_index are u16 in the code; the bounds keep them far below      *)
(* 2^16.                                                                   *)
(***************************************************************************)
LKeys == {1, 2}
LCodes == {1, 2}

\* LedgerSignature {address, signature}; signer is the key whose secret key
\* made the signature over the body it is attached to.
LedgerSignature(address, signer) == [address |-> address, signer |-> signer]

\* LedgerSignature::verify: the signature checks against address.key.
verify(sig) == sig.signer = sig.address

TxOutput(pk) == [public_key |-> pk]

AssetCreation(code, issuer, sig) ==
    [type |-> "AssetCreation",
     body |-> [properties |-> [code |-> code, issuer |-> issuer]],
     body_signature |-> sig]

AssetIssuance(code, seq_num, outputs, sig) ==
    [type |-> "AssetIssuance",
     body |-> [code |-> code, seq_num |-> seq_num, outputs |-> outputs],
     body_signature |-> sig]

\* body.transfer is the zei transfer: its outputs and whether its own proof
\* verifies; body.inputs are the ledger addresses the operation names.
AssetTransfer(inputs, outputs, body_signatures, operation_signatures, zei_ok) ==
    [type |-> "AssetTransfer",
     body |-> [inputs |-> inputs,
               transfer |-> [outputs |-> outputs, verifies |-> zei_ok],
               operation_signatures |-> operation_signatures],
     body_signatures |-> body_signatures]

LedgerState_default ==
    [txs          |-> <<>>,
     utxos        |-> <<>>,
     tokens       |-> <<>>,
     issuance_num |-> <<>>,
     next_index   |-> [tx_index |-> 0, op_index |-> 0, utxo_index |-> 0]]

Led ==
    [txs          |-> txs,
     utxos        |-> utxos,
     tokens       |-> tokens,
     issuance_num |-> issuance_num,
     next_index   |-> next_index]

compute_sha256_hash(msg) == <<"sha256", msg>>

\* HashMap::remove
Remove(m, k) == [x \in (DOMAIN m) \ {k} |-> m[x]]

add_txo(L, txo) ==
    LET utxo_addr == <<L.next_index.tx_index, L.next_index.op_index,
                       L.next_index.utxo_index>>
        utxo_ref  == [key |-> utxo_addr,
                      digest |-> compute_sha256_hash(txo),
                      output |-> txo]
    IN  [L EXCEPT !.utxos = Insert(@, utxo_addr, utxo_ref),
                  !.next_index.utxo_index = @ + 1]

RECURSIVE RemoveAll(_, _)
RemoveAll(m, addrs) ==
    IF addrs = <<>> THEN m ELSE RemoveAll(Remove(m, Head(addrs)), Tail(addrs))

RECURSIVE AddAll(_, _)
AddAll(L, outs) ==
    IF outs = <<>> THEN L ELSE AddAll(add_txo(L, Head(outs)), Tail(outs))

apply_asset_transfer(L, transfer) ==
    AddAll([L EXCEPT !.utxos = RemoveAll(@, transfer.body.inputs)],
           transfer.body.transfer.outputs)

apply_asset_issuance(L, issue) == AddAll(L, issue.body.outputs)

\* Variant of apply_asset_creation: only the code of the properties is kept.
apply_asset_creation_CodeOnly(L, create) ==
    LET token == [properties |-> [code |-> create.body.properties.code, issuer |-> 0],
                  units |-> 0]
    IN  [L EXCEPT !.tokens = Insert(@, token.properties.code, token)]

apply_asset_creation(L, create) ==
    LET token == [properties |-> create.body.properties, units |-> 0]
    IN  [L EXCEPT !.tokens = Insert(@, token.properties.code, token)]

\* Variant of apply_operation: op_index is not advanced.
apply_operation_NoOpIncrement(L, op) ==
    LET L0 == [L EXCEPT !.next_index.utxo_index = 0]
    IN  CASE op.type = "AssetTransfer" -> apply_asset_transfer(L0, op)
          [] op.type = "AssetIssuance" -> apply_asset_issuance(L0, op)
          [] op.type = "AssetCreation" -> apply_asset_creation(L0, op)

apply_operation(L, op) ==
    LET L0 == [L EXCEPT !.next_index.utxo_index = 0]
        L1 == CASE op.type = "AssetTransfer" -> apply_asset_transfer(L0, op)
                [] op.type = "AssetIssuance" -> apply_asset_issuance(L0, op)
                [] op.type = "AssetCreation" -> apply_asset_creation(L0, op)
    IN  [L1 EXCEPT !.next_index.op_index = @ + 1]

RECURSIVE ApplyOperations(_, _)
ApplyOperations(L, ops) ==
    IF ops = <<>> THEN L
    ELSE ApplyOperations(apply_operation(L, Head(ops)), Tail(ops))

\* Variant of apply_transaction: a transaction that produced no output does
\* not advance tx_index.
apply_transaction_SkipEmpty(L, txn) ==
    LET L0 == [L EXCEPT !.next_index.op_index = 0]
        L1 == ApplyOperations(L0, txn.operations)
    IN  [L1 EXCEPT !.next_index.tx_index =
                       IF L1.utxos = L.utxos THEN @ ELSE @ + 1,
                   !.txs = Append(@, txn)]

apply_transaction(L, txn) ==
    LET L0 == [L EXCEPT !.next_index.op_index = 0]
        L1 == ApplyOperations(L0, txn.operations)
    IN  [L1 EXCEPT !.next_index.tx_index = @ + 1,
                   !.txs = Append(@, txn)]

check_utxo(L, addr) == IF addr \in DOMAIN L.utxos THEN Some(L.utxos[addr]) ELSE None

get_asset_token(L, code) ==
    IF code \in DOMAIN L.tokens THEN Some(L.tokens[code]) ELSE None

\* validate_asset_transfer without step [2].
validate_asset_transfer_NoInputCheck(L, transfer) ==
    /\ \A i \in 1..Len(transfer.body_signatures) : verify(transfer.body_signatures[i])
    /\ transfer.body.transfer.verifies

validate_asset_transfer(L, transfer) ==
    \* [1] signatures are valid
    /\ \A i \in 1..Len(transfer.body_signatures) : verify(transfer.body_signatures[i])
    \* [2] utxos exist on ledger, and an operation signature names the owner
    /\ \A i \in 1..Len(transfer.body.inputs) :
          LET utxo_addr == transfer.body.inputs[i]
          IN  /\ check_utxo(L, utxo_addr) # None
              /\ {x \in transfer.body.operation_signatures :
                     x.address = L.utxos[utxo_addr].output.public_key} # {}
    \* [3] zei transaction is valid
    /\ transfer.body.transfer.verifies

validate_asset_issuance(L, issue) ==
    \* [1] token has been created
    /\ issue.body.code \in DOMAIN L.tokens
    /\ issue.body.code \in DOMAIN L.issuance_num
    \* [2] replay attack - not issued before
    /\ ~(issue.body.seq_num <= L.issuance_num[issue.body.code])
    \* [3] signature is correct on body
    /\ verify(issue.body_signature)
    \* [4] signature belongs to the issuer
    /\ L.tokens[issue.body.code].properties.issuer = issue.body_signature.address

\* Variant of validate_asset_creation: the signature is not looked at.
validate_asset_creation_NoVerify(L, create) ==
    create.body.properties.code \notin DOMAIN L.tokens

validate_asset_creation(L, create) ==
    /\ create.body.properties.code \notin DOMAIN L.tokens
    /\ verify(create.body_signature)

validate_operation(L, op) ==
    CASE op.type = "AssetTransfer" -> validate_asset_transfer(L, op)
      [] op.type = "AssetIssuance" -> validate_asset_issuance(L, op)
      [] op.type = "AssetCreation" -> validate_asset_creation(L, op)

validate_transaction(L, txn) ==
    \A i \in 1..Len(txn.operations) : validate_operation(L, txn.operations[i])

\* A validation that takes the inputs it finds out of the UTXO set.
validate_transaction_effect_Consumes(L, txn) ==
    [L EXCEPT !.utxos =
        [a \in (DOMAIN @) \ UNION {IF txn.operations[i].type = "AssetTransfer"
                                   THEN {txn.operations[i].body.inputs[k] :
                                           k \in 1..Len(txn.operations[i].body.inputs)}
                                   ELSE {} : i \in 1..Len(txn.operations)}
         |-> @[a]]]

\* The LedgerState that validate_transaction leaves behind.  The validate_*
\* functions take &mut self, and read only: check_utxo and get clone what
\* they return, contains_key looks up; no field is assigned.
validate_transaction_effect(L, txn) == L

(***************************************************************************)
(* LedgerState of src/store/mod.rs, the other store of the repository.     *)
(* Where its code differs from core/src/store/mod.rs the operator is       *)
(* given anew with the prefix Store_; apply_asset_creation, check_utxo,    *)
(* validate_asset_transfer and validate_asset_creation are the same code   *)
(* in both files and are used as defined above.                            *)
(***************************************************************************)
\* digest: [0; 32]
Store_add_txo(L, txo) ==
    LET utxo_addr == <<L.next_index.tx_index, L.next_index.op_index,
                       L.next_index.utxo_index>>
        utxo_ref  == [key |-> utxo_addr, digest |-> 0, output |-> txo]
    IN  [L EXCEPT !.utxos = Insert(@, utxo_addr, utxo_ref),
                  !.next_index.utxo_index = @ + 1]

RECURSIVE Store_AddAll(_, _)
Store_AddAll(L, outs) ==
    IF outs = <<>> THEN L
    ELSE Store_AddAll(Store_add_txo(L, Head(outs)), Tail(outs))

Store_apply_asset_transfer(L, transfer) ==
    Store_AddAll([L EXCEPT !.utxos = RemoveAll(@, transfer.body.inputs)],
                 transfer.body.transfer.outputs)

Store_apply_asset_issuance(L, issue) == Store_AddAll(L, issue.body.outputs)

Store_apply_operation(L, op) ==
    LET L0 == [L EXCEPT !.next_index.utxo_index = 0]
        L1 == CASE op.type = "AssetTransfer" -> Store_apply_asset_transfer(L0, op)
                [] op.type = "AssetIssuance" -> Store_apply_asset_issuance(L0, op)
                [] op.type = "AssetCreation" -> apply_asset_creation(L0, op)
    IN  [L1 EXCEPT !.next_index.op_index = @ + 1]

RECURSIVE Store_ApplyOperations(_, _)
Store_ApplyOperations(L, ops) ==
    IF ops = <<>> THEN L
    ELSE Store_ApplyOperations(Store_apply_operation(L, Head(ops)), Tail(ops))

Store_apply_transaction(L, txn) ==
    LET L0 == [L EXCEPT !.next_index.op_index = 0]
        L1 == Store_ApplyOperations(L0, txn.operations)
    IN  [L1 EXCEPT !.next_index.tx_index = @ + 1,
                   !.txs = Append(@, txn)]

\* No look at tokens and none at seq_num; issuance_num is written nowhere.
Store_validate_asset_issuance(L, issue) ==
    /\ ~(issue.body.code \in DOMAIN L.issuance_num)
    /\ verify(issue.body_signature)

Store_validate_operation(L, op) ==
    CASE op.type = "AssetTransfer" -> validate_asset_transfer(L, op)
      [] op.type = "AssetIssuance" -> Store_validate_asset_issuance(L, op)
      [] op.type = "AssetCreation" -> validate_asset_creation(L, op)

Store_validate_transaction(L, txn) ==
    \A i \in 1..Len(txn.operations) : Store_validate_operation(L, txn.operations[i])

(***************************************************************************)
(* Delegation (ledger/src/staking/ops/delegation.rs).  A Result is a       *)
(* record: ok tells Ok from Err, and the rest is the value of Ok.          *)
(***************************************************************************)
ASSET_TYPE_FRA == "FRA"
COINBASE_PRINCIPAL_PK == "CB"
STAKING_VALIDATOR_MIN_POWER == 2

\* Amount is u64.  The model carries it in AmountBits bits: the largest
\* amount is U64_MAX, and a sum that passes it wraps around, as .sum::<u64>()
\* does in a build without overflow checks.
AmountBits == 3
U64_MAX == 2^AmountBits - 1
wrapping_add(a, b) == (a + b) % (U64_MAX + 1)

NonConfidential(x) == <<"NonConfidential", x>>
Confidential == <<"Confidential">>

BlindAssetRecord(ty, am, pk) ==
    [asset_type |-> ty, amount |-> am, public_key |-> pk]

TransferAsset(inputs, outputs) ==
    [type |-> "TransferAsset",
     body |-> [transfer |-> [inputs |-> inputs],
               outputs |-> [i \in 1..Len(outputs) |-> [record |-> outputs[i]]]]]

Validator(td_addr, basic_valid) ==
    [td_addr |-> td_addr, td_power |-> 0, basic_valid |-> basic_valid]

\* signer is the key that made the signature over the body.
Delegation(pubkey, validator, validator_staking, signer) ==
    [type |-> "Delegation",
     body |-> [validator |-> validator, validator_staking |-> validator_staking],
     pubkey |-> pubkey,
     signature |-> [signer |-> signer]]

DelegationTransaction(ops) == [body |-> [operations |-> ops]]

\* hex::encode_upper of the address bytes of a validator.
hex_encode_upper(td_addr) ==
    CASE td_addr = "a1" -> "A1"
      [] td_addr = "b2" -> "B2"

\* ---- Staking: the table the operation is applied to ----
Staking_new ==
    [cur_height |-> 1,
     validators |-> [a \in {"A1"} |-> [td_power |-> STAKING_VALIDATOR_MIN_POWER,
                                       height |-> 0]],
     delegations |-> <<>>]

staking_is_basic_valid(v) == v.basic_valid

\* The limit on the power of one validator is a matter of the whole table;
\* whether am passes it is an outcome the caller cannot tell: power_ok.
validator_check_power_x(st, am, power, power_ok) == power_ok

validator_add_staker(st, h, v) ==
    LET addr == hex_encode_upper(v.td_addr)
    IN  IF addr \in DOMAIN st.validators
        THEN [s |-> st, ok |-> FALSE]
        ELSE [s |-> [st EXCEPT !.validators =
                        @ @@ (addr :> [td_power |-> v.td_power, height |-> h])],
              ok |-> TRUE]

\* delegate fails for a validator the table does not know, and for reasons
\* of its own (delegate_ok); a failed delegate leaves the table as it was.
delegate(st, owner, validator, am, delegate_ok) ==
    IF validator \notin DOMAIN st.validators \/ ~delegate_ok
    THEN [s |-> st, ok |-> FALSE]
    ELSE LET key == <<owner, validator>>
         IN  [s |-> [st EXCEPT !.delegations =
                        IF key \in DOMAIN @
                        THEN [@ EXCEPT ![key] = @ + am]
                        ELSE @ @@ (key :> am)],
              ok |-> TRUE]

\* ---- check_delegation_context_principal and its two sums ----
\* OutputsSum without the test of the owner of the output.
RECURSIVE OutputsSum_AnyOwner(_, _)
OutputsSum_AnyOwner(outputs, target_pk) ==
    IF outputs = <<>> THEN 0
    ELSE LET o == Head(outputs)
             i_am == IF /\ o.record.asset_type[1] = "NonConfidential"
                        /\ o.record.asset_type[2] = ASSET_TYPE_FRA
                        /\ o.record.amount[1] = "NonConfidential"
                     THEN o.record.amount[2]
                     ELSE 0
         IN  i_am + OutputsSum_AnyOwner(Tail(outputs), target_pk)

RECURSIVE OutputsSum(_, _)
OutputsSum(outputs, target_pk) ==
    IF outputs = <<>> THEN 0
    ELSE LET o == Head(outputs)
             i_am == IF /\ o.record.asset_type[1] = "NonConfidential"
                        /\ o.record.asset_type[2] = ASSET_TYPE_FRA
                        /\ target_pk = o.record.public_key
                        /\ o.record.amount[1] = "NonConfidential"
                     THEN o.record.amount[2]
                     ELSE 0
         IN  wrapping_add(i_am, OutputsSum(Tail(outputs), target_pk))

keynum(x) ==
    Cardinality({x.body.transfer.inputs[i].public_key :
                    i \in 1..Len(x.body.transfer.inputs)})

\* The test of line 210 with `owner == inputs[0].public_key` in front: it
\* indexes the inputs of every transfer.
inputs_owned_by_OwnerFirst(x, owner) ==
    IF x.body.transfer.inputs = <<>>
    THEN [val |-> FALSE, panic |-> TRUE]
    ELSE [val |-> owner = x.body.transfer.inputs[1].public_key /\ 1 = keynum(x),
          panic |-> FALSE]

\* 1 == keynum && owner == x.body.transfer.inputs[0].public_key: the index
\* is evaluated only when the first operand is true, and is out of range
\* (panic) when the list is then empty.
inputs_owned_by(x, owner) ==
    IF 1 = keynum(x)
    THEN (IF x.body.transfer.inputs = <<>>
          THEN [val |-> FALSE, panic |-> TRUE]
          ELSE [val |-> owner = x.body.transfer.inputs[1].public_key,
                panic |-> FALSE])
    ELSE [val |-> FALSE, panic |-> FALSE]

RECURSIVE OperationsSum(_, _, _)
OperationsSum(operations, owner, target_pk) ==
    IF operations = <<>> THEN 0
    ELSE LET op == Head(operations)
             am == IF /\ op.type = "TransferAsset"
                      /\ inputs_owned_by(op, owner).val
                   THEN OutputsSum(op.body.outputs, target_pk)
                   ELSE 0
         IN  wrapping_add(am, OperationsSum(Tail(operations), owner, target_pk))

\* The index of line 210 is out of range for some transfer of the list.
IndexPanics(operations, owner) ==
    \E k \in 1..Len(operations) :
        /\ operations[k].type = "TransferAsset"
        /\ inputs_owned_by(operations[k], owner).panic

\* check_delegation_context_principal that accepts a sum of zero.
check_delegation_context_principal_AllowsZero(tx, owner) ==
    LET target_pk == COINBASE_PRINCIPAL_PK
        am == OperationsSum(tx.body.operations, owner, target_pk)
    IN  IF 0 <= am THEN [ok |-> TRUE, am |-> am] ELSE [ok |-> FALSE, am |-> 0]

check_delegation_context_principal(tx, owner) ==
    LET target_pk == COINBASE_PRINCIPAL_PK
        am == OperationsSum(tx.body.operations, owner, target_pk)
    IN  IF 0 < am THEN [ok |-> TRUE, am |-> am] ELSE [ok |-> FALSE, am |-> 0]

RECURSIVE DelegationOwners(_)
DelegationOwners(operations) ==
    IF operations = <<>> THEN <<>>
    ELSE (IF Head(operations).type = "Delegation"
          THEN <<Head(operations).pubkey>> ELSE <<>>)
         \o DelegationOwners(Tail(operations))

\* check_delegation_context that asks for a Delegation, not for one only.
check_delegation_context_AtLeastOne(tx) ==
    LET owner == DelegationOwners(tx.body.operations)
    IN  IF 1 > Len(owner) THEN [ok |-> FALSE, am |-> 0]
        ELSE check_delegation_context_principal(tx, owner[1])

check_delegation_context(tx) ==
    LET owner == DelegationOwners(tx.body.operations)
    IN  IF 1 # Len(owner) THEN [ok |-> FALSE, am |-> 0]
        ELSE check_delegation_context_principal(tx, owner[1])

\* ---- DelegationOps ----
DelegationOps_verify(self) == self.signature.signer = self.pubkey

\* env holds the outcomes of the checks Staking makes on its own.
\* check_set_context that registers a validator with any stake.
check_set_context_NoMinPower(self, st, tx, env) ==
    LET ctx == check_delegation_context(tx)
        am == ctx.am
    IN  IF ~ctx.ok THEN [s |-> st, ok |-> FALSE, am |-> 0]
        ELSE IF self.body.validator_staking = None
        THEN [s |-> st, ok |-> TRUE, am |-> am]
        ELSE LET v == self.body.validator_staking[1]
                 h == st.cur_height
             IN  IF \/ ~staking_is_basic_valid(v)
                    \/ self.body.validator # hex_encode_upper(v.td_addr)
                 THEN [s |-> st, ok |-> FALSE, am |-> 0]
                 ELSE IF ~validator_check_power_x(st, am, 0, env.power_ok)
                 THEN [s |-> st, ok |-> FALSE, am |-> 0]
                 ELSE LET r == validator_add_staker(st, h, [v EXCEPT !.td_power = am])
                      IN  IF r.ok THEN [s |-> r.s, ok |-> TRUE, am |-> am]
                          ELSE [s |-> r.s, ok |-> FALSE, am |-> 0]

check_set_context(self, st, tx, env) ==
    LET ctx == check_delegation_context(tx)
        am == ctx.am
    IN  IF ~ctx.ok THEN [s |-> st, ok |-> FALSE, am |-> 0]
        ELSE IF self.body.validator_staking = None
        THEN [s |-> st, ok |-> TRUE, am |-> am]
        ELSE LET v == self.body.validator_staking[1]
                 h == st.cur_height
             IN  IF \/ ~staking_is_basic_valid(v)
                    \/ am < STAKING_VALIDATOR_MIN_POWER
                    \/ self.body.validator # hex_encode_upper(v.td_addr)
                 THEN [s |-> st, ok |-> FALSE, am |-> 0]
                 ELSE IF ~validator_check_power_x(st, am, 0, env.power_ok)
                 THEN [s |-> st, ok |-> FALSE, am |-> 0]
                 ELSE LET r == validator_add_staker(st, h, [v EXCEPT !.td_power = am])
                      IN  IF r.ok THEN [s |-> r.s, ok |-> TRUE, am |-> am]
                          ELSE [s |-> r.s, ok |-> FALSE, am |-> 0]

\* apply that delegates one unit more than the context pays.
DelegationOps_apply_WrongAmount(self, st, tx, env) ==
    IF ~DelegationOps_verify(self)
    THEN [s |-> st, ok |-> FALSE, delegated |-> <<>>]
    ELSE LET c == check_set_context(self, st, tx, env)
         IN  IF ~c.ok THEN [s |-> c.s, ok |-> FALSE, delegated |-> <<>>]
             ELSE LET r == delegate(c.s, self.pubkey, self.body.validator, c.am + 1,
                                    env.delegate_ok)
                  IN  [s |-> r.s, ok |-> r.ok,
                       delegated |-> <<<<self.pubkey, self.body.validator, c.am + 1>>>>]

\* apply that looks at the signature after the context and the delegation.
DelegationOps_apply_VerifyLast(self, st, tx, env) ==
    LET c == check_set_context(self, st, tx, env)
    IN  IF ~c.ok THEN [s |-> c.s, ok |-> FALSE, delegated |-> <<>>]
        ELSE LET r == delegate(c.s, self.pubkey, self.body.validator, c.am,
                               env.delegate_ok)
             IN  [s |-> r.s, ok |-> r.ok /\ DelegationOps_verify(self),
                  delegated |-> <<<<self.pubkey, self.body.validator, c.am>>>>]

\* delegated lists the calls of Staking::delegate that were made.
DelegationOps_apply(self, st, tx, env) ==
    IF ~DelegationOps_verify(self)
    THEN [s |-> st, ok |-> FALSE, delegated |-> <<>>]
    ELSE LET c == check_set_context(self, st, tx, env)
         IN  IF ~c.ok THEN [s |-> c.s, ok |-> FALSE, delegated |-> <<>>]
             ELSE LET r == delegate(c.s, self.pubkey, self.body.validator, c.am,
                                    env.delegate_ok)
                  IN  [s |-> r.s, ok |-> r.ok,
                       delegated |-> <<<<self.pubkey, self.body.validator, c.am>>>>]

\* The history before any call of DelegationOps::apply.
NoCall ==
    [ret |-> "none", self |-> None, before |-> Staking_new, delegated |-> <<>>,
     context |-> [ok |-> FALSE, am |-> 0], delegations |-> 0, paid |-> 0,
     spent |-> 0, balanced |-> FALSE,
     env |-> [power_ok |-> TRUE, delegate_ok |-> TRUE]]

\* The history before any call of check_delegation_context.
NoContext ==
    [ret |-> "none", tx |-> None, context |-> [ok |-> FALSE, am |-> 0],
     overflow_checks |-> FALSE]

DelegationIdle ==
    /\ staking = Staking_new
    /\ dlg = NoCall
    /\ amt = NoContext

\* No callback was served yet; the node starts at committed height h.
NoResponse ==
    [cb |-> "none", code |-> 0, log |-> "", req |-> None, kind |-> "",
     recorded |-> FALSE, added |-> FALSE, height |-> 0]

AbciIdle ==
    /\ tx_history = {}
    /\ pool = {}
    /\ td_height = 0
    /\ committed_height = 0
    /\ phase = [at |-> "start", info |-> FALSE, delivered |-> 0]
    /\ resp = NoResponse

\* s.la, the ledger behind it (committed_state), s.account_base_app and
\* REQ_BEGIN_BLOCK.
LockNames == {"la", "ledger", "app", "req"}

\* The threads on which the consensus engine calls the callbacks.
CallbackThreads == {"abci1", "abci2"}

Free == [readers |-> {}, writer |-> None]

\* A thread between two callbacks.
Returned == [cb |-> "none", prog |-> <<>>, pc |-> 1]

\* Nobody holds the ledger.
LockIdle ==
    /\ ledger_lock = [readers |-> {}, writer |-> None]
    /\ applying = None
    /\ locks = [l \in LockNames |-> Free]
    /\ thread = [t \in CallbackThreads |-> Returned]

(***************************************************************************)
(* The server as a state machine: one action per public operation.         *)
(***************************************************************************)
Result(s, ok) == IF s.panicked # "" THEN "Panic" ELSE IF ok THEN "Ok" ELSE "Err"

\* What the history keeps of a call: handle_transaction leaves no mark,
\* end_block and abort_block leave the same one.
CallClass(op) ==
    CASE op = "handle_transaction" -> {}
      [] op = "cache_transaction"  -> {"cache_transaction"}
      [] op = "begin_block"        -> {"begin_block"}
      [] OTHER                     -> {"end_or_abort"}

\* The variables take the fields of s; ret records what the call returned.
InstallServer(s, op, ok, h) ==
    /\ block' = s.block
    /\ pending_txns' = s.pending_txns
    /\ txn_status' = s.txn_status
    /\ committed_state' = s.committed_state
    /\ panicked' = s.panicked
    /\ ret' = <<op, Result(s, ok), h>>
    /\ called' = called \cup CallClass(op)
    /\ at_begin' = IF s.block = None THEN None
                   ELSE IF block = None THEN Some(committed_state)
                   ELSE at_begin
    /\ UNCHANGED block_capacity

\* A call of the server on its own: nothing else moves.
Install(s, op, ok, h) ==
    /\ InstallServer(s, op, ok, h)
    /\ UNCHANGED <<ledVars, dlgVars, abciVars, lockVars, ordVars>>

PendingHandles(pend) == {pend[i][2] : i \in 1..Len(pend)}

\* Transactions applied so far, committed or in the open block.
Applied == committed_state.txn_count
           + (IF block = None THEN 0 ELSE Len(block[1].txns))

Running == panicked = ""

\* The LedgerState before any transaction.
LedgerIdle ==
    /\ txs = LedgerState_default.txs
    /\ utxos = LedgerState_default.utxos
    /\ tokens = LedgerState_default.tokens
    /\ issuance_num = LedgerState_default.issuance_num
    /\ next_index = LedgerState_default.next_index
    /\ valid = "none"
    /\ consumed = <<>>
    /\ produced = 0
    /\ bad_creation = FALSE
    /\ bad_input = {}

Init ==
    /\ LedgerIdle
    /\ DelegationIdle
    /\ AbciIdle
    /\ LockIdle
    /\ block_capacity \in 0..MaxCapacity
    /\ block = new(LedgerInit, block_capacity).block
    /\ pending_txns = new(LedgerInit, block_capacity).pending_txns
    /\ txn_status = new(LedgerInit, block_capacity).txn_status
    /\ committed_state = new(LedgerInit, block_capacity).committed_state
    /\ panicked = new(LedgerInit, block_capacity).panicked
    /\ ret = <<"new", "Ok", NoHandle>>
    /\ called = {}
    /\ aborted = {}
    /\ at_begin = None

BeginBlock ==
    /\ Running
    /\ Install(begin_block(Srv), "begin_block", TRUE, NoHandle)
    /\ UNCHANGED aborted

EndBlock ==
    /\ Running
    /\ LET r == end_block(Srv) IN Install(r.s, "end_block", r.ok, r.handle)
    /\ UNCHANGED aborted

CacheTransaction(txn) ==
    /\ Running
    /\ Len(pending_txns) < MaxPending
    /\ Applied < MaxTxnSID
    /\ LET r == cache_transaction(Srv, txn)
       IN  Install(r.s, "cache_transaction", r.ok, r.handle)
    /\ aborted' = aborted \ {TxnHandle_new(txn)}

AbortBlock ==
    /\ Running
    /\ Install(abort_block(Srv), "abort_block", TRUE, NoHandle)
    /\ aborted' = IF block = None THEN aborted
                  ELSE aborted \cup PendingHandles(pending_txns)

HandleTransaction(txn) ==
    /\ Running
    /\ Len(pending_txns) < MaxPending
    /\ Applied < MaxTxnSID
    /\ LET r == handle_transaction(Srv, txn)
       IN  Install(r.s, "handle_transaction", r.ok, r.handle)
    /\ aborted' = aborted \ {TxnHandle_new(txn)}

Next ==
    \/ BeginBlock
    \/ EndBlock
    \/ \E txn \in Txns : CacheTransaction(txn)
    \/ AbortBlock
    \/ \E txn \in Txns : HandleTransaction(txn)

Spec == Init /\ [][Next]_vars

(***************************************************************************)
(* LedgerState as a state machine: a caller validates a transaction and    *)
(* applies it when validate_transaction accepted it.                       *)
(***************************************************************************)
\* An address no output ever gets: tx_index stays below MaxTxns.
AbsentAddr == <<MaxTxns, 0, 0>>

\* The addresses a transfer may name: unspent, spent or never created.
InputCandidates ==
    (DOMAIN utxos) \cup (DOMAIN consumed) \cup {AbsentAddr}

InputLists == UNION {[1..n -> InputCandidates] : n \in 0..MaxInputs}

OutputLists == {[i \in 1..n |-> TxOutput(1)] : n \in 0..MaxOutputs}

GoodSig == LedgerSignature(1, 1)
BadSig == LedgerSignature(2, 1)

TransferOps ==
    \* correctly signed transfers whose zei proof verifies
    {AssetTransfer(i, o, <<GoodSig>>, {GoodSig}, TRUE) :
        i \in InputLists, o \in OutputLists}
    \* no operation signature names the owner of the input
    \cup {AssetTransfer(<<a>>, <<>>, <<GoodSig>>, {LedgerSignature(2, 2)}, TRUE) :
            a \in DOMAIN utxos}
    \* a body signature that does not verify; a zei proof that does not verify
    \cup {AssetTransfer(<<>>, <<TxOutput(1)>>, <<BadSig>>, {GoodSig}, TRUE),
          AssetTransfer(<<>>, <<TxOutput(1)>>, <<GoodSig>>, {GoodSig}, FALSE)}

CreationOps ==
    {AssetCreation(c, i, sig) :
        c \in LCodes, i \in LKeys, sig \in {GoodSig, BadSig, LedgerSignature(2, 2)}}

IssuanceOps ==
    {AssetIssuance(1, n, <<TxOutput(1)>>, GoodSig) : n \in {0, 5}}

Operations == TransferOps \cup CreationOps \cup IssuanceOps

Transaction(ops) == [operations |-> ops]

LedgerTxns == {Transaction(ops) : ops \in UNION {[1..n -> Operations] : n \in 0..MaxOps}}

\* History of what the applied operations listed and produced.
RECURSIVE CountInputs(_, _)
CountInputs(bag, addrs) ==
    IF addrs = <<>> THEN bag
    ELSE LET a == Head(addrs)
         IN  CountInputs(Insert(bag, a, IF a \in DOMAIN bag THEN bag[a] + 1 ELSE 1),
                         Tail(addrs))

RECURSIVE ListedInputs(_, _)
ListedInputs(bag, ops) ==
    IF ops = <<>> THEN bag
    ELSE ListedInputs(IF Head(ops).type = "AssetTransfer"
                      THEN CountInputs(bag, Head(ops).body.inputs)
                      ELSE bag,
                      Tail(ops))

RECURSIVE OutputCount(_)
OutputCount(ops) ==
    IF ops = <<>> THEN 0
    ELSE (CASE Head(ops).type = "AssetTransfer" -> Len(Head(ops).body.transfer.outputs)
            [] Head(ops).type = "AssetIssuance" -> Len(Head(ops).body.outputs)
            [] OTHER -> 0)
         + OutputCount(Tail(ops))

\* An AssetCreation of txn carries a signature made by a key other than the
\* one it names.
HasBadCreation(txn) ==
    \E i \in 1..Len(txn.operations) :
        /\ txn.operations[i].type = "AssetCreation"
        /\ txn.operations[i].body_signature.address
           # txn.operations[i].body_signature.signer

\* What validate_transaction has to object to in the inputs of the
\* transfers of txn: an address that was never in the UTXO set, one that an
\* applied transaction has spent, an owner that no operation signature names.
BadInputs(txn) ==
    UNION {LET op == txn.operations[i]
           IN  IF op.type # "AssetTransfer" THEN {}
               ELSE UNION {LET a == op.body.inputs[k]
                           IN  IF a \in DOMAIN utxos
                               THEN IF utxos[a].output.public_key
                                       \in {x.address : x \in op.body.operation_signatures}
                                    THEN {} ELSE {"unsigned"}
                               ELSE IF a \in DOMAIN consumed
                               THEN {"spent"} ELSE {"never"} :
                           k \in 1..Len(op.body.inputs)} :
           i \in 1..Len(txn.operations)}

\* The server, left as constructed.
ServerIdle ==
    /\ block_capacity = MaxCapacity
    /\ block = new(LedgerInit, block_capacity).block
    /\ pending_txns = new(LedgerInit, block_capacity).pending_txns
    /\ txn_status = new(LedgerInit, block_capacity).txn_status
    /\ committed_state = new(LedgerInit, block_capacity).committed_state
    /\ panicked = new(LedgerInit, block_capacity).panicked
    /\ ret = <<"new", "Ok", NoHandle>>
    /\ called = {}
    /\ aborted = {}
    /\ at_begin = None

InitLedger == ServerIdle /\ LedgerIdle /\ DelegationIdle /\ AbciIdle /\ LockIdle

\* validate_transaction(&txn), then apply_transaction(txn) if it returned true.
SubmitTransaction(txn) ==
    /\ valid' = validate_transaction(Led, txn)
    /\ LET V == validate_transaction_effect(Led, txn)
           L == IF valid' THEN apply_transaction(V, txn) ELSE V
       IN  /\ txs' = L.txs
           /\ utxos' = L.utxos
           /\ tokens' = L.tokens
           /\ issuance_num' = L.issuance_num
           /\ next_index' = L.next_index
    /\ IF valid'
       THEN /\ consumed' = ListedInputs(consumed, txn.operations)
            /\ produced' = produced + OutputCount(txn.operations)
       ELSE UNCHANGED <<consumed, produced>>
    /\ bad_creation' = HasBadCreation(txn)
    /\ bad_input' = BadInputs(txn)
    /\ UNCHANGED <<srvVars, dlgVars, abciVars, lockVars, ordVars>>

\* Once MaxTxns transactions are applied, a transfer of a spent output that
\* validate_transaction refuses is still submitted.  It leaves the ledger as it is: what can follow
\* it is what can follow the state it was submitted in.
SubmitRefused(op) ==
    /\ next_index.tx_index = MaxTxns
    /\ valid = TRUE
    /\ ~validate_transaction(Led, Transaction(<<op>>))
    /\ SubmitTransaction(Transaction(<<op>>))

NextLedger ==
    \/ /\ next_index.tx_index < MaxTxns
       /\ \E txn \in LedgerTxns : SubmitTransaction(txn)
    \/ \E a \in DOMAIN consumed :
          SubmitRefused(AssetTransfer(<<a>>, <<>>, <<GoodSig>>, {GoodSig}, TRUE))

SpecLedger == InitLedger /\ [][NextLedger]_vars

(***************************************************************************)
(* LedgerState of src/store/mod.rs as a state machine, over the same       *)
(* variables and the same transactions.                                    *)
(***************************************************************************)
Store_SubmitTransaction(txn) ==
    /\ valid' = Store_validate_transaction(Led, txn)
    /\ IF valid'
       THEN LET L == Store_apply_transaction(Led, txn)
            IN  /\ txs' = L.txs
                /\ utxos' = L.utxos
                /\ tokens' = L.tokens
                /\ issuance_num' = L.issuance_num
                /\ next_index' = L.next_index
                /\ consumed' = ListedInputs(consumed, txn.operations)
                /\ produced' = produced + OutputCount(txn.operations)
       ELSE UNCHANGED <<txs, utxos, tokens, issuance_num, next_index, consumed,
                        produced>>
    /\ bad_creation' = HasBadCreation(txn)
    /\ bad_input' = BadInputs(txn)
    /\ UNCHANGED <<srvVars, dlgVars, abciVars, lockVars, ordVars>>

NextStore ==
    /\ next_index.tx_index < MaxTxns
    /\ \E txn \in LedgerTxns : Store_SubmitTransaction(txn)

SpecStore == InitLedger /\ [][NextStore]_vars

(***************************************************************************)
(* Properties of the SubmissionServer.                                     *)
(***************************************************************************)
IsCommitted(st) == st[1] = "Committed"

\* A transaction the ledger accepts into a block that holds nothing yet.
AcceptableInFreshBlock(txn) ==
    /\ compute_effect(txn).ok
    /\ effect_valid(committed_state, LU_start_block(committed_state).block, txn)

\* C3 (as stated): once txn_status[h] is Committed it never becomes Pending
\* again and its Committed value never changes, whatever operation follows.
C3_CommittedIsFinal ==
    [][\A h \in DOMAIN txn_status :
          IsCommitted(txn_status[h])
          => /\ h \in DOMAIN txn_status'
             /\ txn_status'[h] = txn_status[h]]_vars

\* C3 (amended): a Committed status keeps its value in every step other
\* than a cache_transaction or handle_transaction of a transaction with the
\* same handle; begin_block, end_block, abort_block and the submission of
\* transactions with other handles leave it alone.
C3_CommittedUntilResubmitted ==
    [][\A h \in DOMAIN txn_status :
          IsCommitted(txn_status[h])
          => \/ /\ h \in DOMAIN txn_status'
                /\ txn_status'[h] = txn_status[h]
             \/ \E txn \in Txns :
                   /\ TxnHandle_new(txn) = h
                   /\ CacheTransaction(txn) \/ HandleTransaction(txn)]_vars

\* C3 witness: a handle is Committed and a transaction with another handle
\* has just been cached successfully.
C3_Witness ==
    \E h \in DOMAIN txn_status :
        /\ IsCommitted(txn_status[h])
        /\ ret[1] = "cache_transaction"
        /\ ret[2] = "Ok"
        /\ ret[3] # h

\* C4: a handle cached in a block that was aborted, and not submitted
\* again, has status Pending in every later state.
C4_AbortedStayPending ==
    \A h \in aborted : h \in DOMAIN txn_status /\ txn_status[h] = Pending

\* C5: after any calls of handle_transaction, end_block and abort_block,
\* handle_transaction called with no open block opens one, so that a valid
\* transaction is accepted; called with a block open it does not call
\* begin_block, so that begin_block's assertion does not fail.
C5_OpensBlockExactlyWhenNone ==
    [][\A txn \in Txns :
          (HandleTransaction(txn) /\ called \subseteq {"end_or_abort"})
          => IF block = None
             THEN AcceptableInFreshBlock(txn) => ret'[2] = "Ok"
             ELSE panicked' = ""]_vars

\* C6: on a server driven by handle_transaction alone, a successful call
\* ends the block exactly when the pending count after caching equals
\* block_capacity: then the pending list is empty, no block is open and every
\* handle of the block is Committed; otherwise the block stays open and every
\* handle of the block is Pending.
C6_CommitExactlyAtCapacity ==
    [][\A txn \in Txns :
          (HandleTransaction(txn) /\ called = {} /\ ret'[2] = "Ok")
          => LET n  == Len(pending_txns) + 1
                 hs == PendingHandles(pending_txns) \cup {TxnHandle_new(txn)}
             IN  IF n = block_capacity
                 THEN /\ pending_txns' = <<>>
                      /\ block' = None
                      /\ committed_state'.txn_count = committed_state.txn_count + n
                      /\ \A h \in hs : IsCommitted(txn_status'[h])
                 ELSE /\ Len(pending_txns') = n
                      /\ block' # None
                      /\ committed_state'.txn_count = committed_state.txn_count
                      /\ \A h \in hs : txn_status'[h] = Pending]_vars

\* C6 witness: a server driven by handle_transaction alone has just ended a
\* block of block_capacity = 2 transactions.
C6_Witness ==
    /\ called = {}
    /\ ret[1] = "handle_transaction"
    /\ ret[2] = "Ok"
    /\ block_capacity = 2
    /\ committed_state.txn_count = 2
    /\ block = None
    /\ pending_txns = <<>>

\* C7 (as stated): with block_capacity >= 1 the pending list never holds
\* more than block_capacity transactions.
C7_NeverExceedsCapacity ==
    block_capacity >= 1 => Len(pending_txns) <= block_capacity

\* C7 (amended): as long as cache_transaction is called through
\* handle_transaction only (begin_block, end_block and abort_block may be
\* called freely), the pending list never holds more than block_capacity
\* transactions, for block_capacity >= 1.
C7_CapacityUnderHandleTransaction ==
    ("cache_transaction" \notin called /\ block_capacity >= 1)
    => Len(pending_txns) <= block_capacity

\* C7 witness: block operations were called, cache_transaction never
\* directly, and handle_transaction has just left a transaction pending.
C7_Witness ==
    /\ "cache_transaction" \notin called
    /\ "begin_block" \in called
    /\ "end_or_abort" \in called
    /\ block_capacity = 2
    /\ ret[1] = "handle_transaction"
    /\ ret[2] = "Ok"
    /\ Len(pending_txns) = 1

\* C8: after abort_block no block is open, the pending list is empty, every
\* Pending status is still Pending and no status entry is added or removed.
C8_AbortClearsPending ==
    [][AbortBlock
       => /\ block' = None
          /\ pending_txns' = <<>>
          /\ DOMAIN txn_status' = DOMAIN txn_status
          /\ \A h \in DOMAIN txn_status :
                txn_status[h] = Pending => txn_status'[h] = Pending]_vars

\* C9: a cache_transaction that returns an error leaves the pending list,
\* the status map, the block handle and the ledger as they were, and on the
\* same open block every transaction that is valid there is then accepted.
C9_FailedCacheChangesNothing ==
    [][\A txn \in Txns :
          (CacheTransaction(txn) /\ ret'[2] = "Err")
          => /\ pending_txns' = pending_txns
             /\ txn_status' = txn_status
             /\ block' = block
             /\ committed_state' = committed_state
             /\ block # None
                => \A v \in Txns :
                      (/\ compute_effect(v).ok
                       /\ effect_valid(committed_state, block[1], v))
                      => cache_transaction(Srv', v).ok]_vars

\* C9 witness: cache_transaction has just failed on an open block that
\* already holds a pending transaction.
C9_Witness ==
    /\ ret[1] = "cache_transaction"
    /\ ret[2] = "Err"
    /\ block # None
    /\ pending_txns # <<>>

\* C10: end_block with an open block finds every pending temp-SID in
\* finish_block's result, leaves every pending handle Committed with the
\* (TxnSID, outputs) returned for its (last) temp-SID, empties the pending
\* list, closes the block and leaves the other status entries alone.
C10_EndBlockCommitsPending ==
    [][(EndBlock /\ block # None)
       => LET fin == LU_finish_block(committed_state, block[1]).finalized
              n   == Len(pending_txns)
          IN  /\ panicked' = ""
              /\ \A i \in 1..n :
                    /\ pending_txns[i][1] \in DOMAIN fin
                    /\ (\A j \in (i + 1)..n : pending_txns[j][2] # pending_txns[i][2])
                       => txn_status'[pending_txns[i][2]]
                          = Committed(fin[pending_txns[i][1]])
              /\ pending_txns' = <<>>
              /\ block' = None
              /\ \A h \in (DOMAIN txn_status) \ PendingHandles(pending_txns) :
                    h \in DOMAIN txn_status' /\ txn_status'[h] = txn_status[h]]_vars

\* The pending entries that belong to the open block of s: the block holds
\* one transaction for each of them, and they are the last ones pushed.
OwnPending(s) ==
    SubSeq(s.pending_txns,
           Len(s.pending_txns) - Len(s.block[1].txns) + 1,
           Len(s.pending_txns))

\* s is the server just before end_block, status the status map after it.
DuplicateOverwritten(s, status) ==
    LET own == OwnPending(s)
        n   == Len(own)
        fin == LU_finish_block(s.committed_state, s.block[1]).finalized
    IN  /\ \A i, j \in 1..n : i < j => own[i][1] # own[j][1]
        /\ \A i \in 1..n :
              (\A j \in (i + 1)..n : own[j][2] # own[i][2])
              => /\ own[i][2] \in DOMAIN status
                 /\ status[own[i][2]] = Committed(fin[own[i][1]])
                 /\ status[own[i][2]][2] = s.committed_state.txn_count + i - 1

\* The server inside handle_transaction, after caching and before end_block.
AfterCaching(txn) ==
    cache_transaction(IF all_commited(Srv) THEN begin_block(Srv) ELSE Srv, txn).s

\* C11: transactions accepted into one block each hold a pending slot with
\* a temp-SID of their own, also when their handles are equal; a block that
\* is finished leaves each handle of the block Committed with the TxnSID of
\* the last transaction submitted under that handle, the k-th transaction of
\* the block having the k-th TxnSID after those committed before.
C11_DuplicateHandleOverwrite ==
    [][/\ (EndBlock /\ block # None /\ panicked' = "")
          => DuplicateOverwritten(Srv, txn_status')
       /\ \A txn \in Txns :
             (HandleTransaction(txn) /\ ret'[2] = "Ok" /\ block' = None)
             => DuplicateOverwritten(AfterCaching(txn), txn_status')]_vars

\* C11 witness: on a fresh ledger with capacity 2 the same transaction was
\* submitted twice and the block finished: one status entry,
\* Committed(TxnSID(1), []).
C11_Witness ==
    /\ block_capacity = 2
    /\ called = {}
    /\ ret[1] = "handle_transaction"
    /\ ret[2] = "Ok"
    /\ block = None
    /\ committed_state.txn_count = 2
    /\ Cardinality(DOMAIN txn_status) = 1
    /\ \A h \in DOMAIN txn_status : txn_status[h] = Committed(<<1, <<>>>>)

\* s is the server just before end_block, status the status map after it:
\* of two handles of the block, the one submitted (last) earlier has the
\* smaller TxnSID.
TxnSIDsIncrease(s, status) ==
    LET own  == OwnPending(s)
        n    == Len(own)
        last == {i \in 1..n : \A j \in (i + 1)..n : own[j][2] # own[i][2]}
    IN  \A i, j \in last :
           i < j => /\ IsCommitted(status[own[i][2]])
                    /\ IsCommitted(status[own[j][2]])
                    /\ status[own[i][2]][2] < status[own[j][2]][2]

\* C12: the k-th transaction cached successfully in an open block (k from
\* 0) gets TxnTempSID(k) and is put at the end of the pending list; a
\* rejected transaction leaves the list alone and uses up no temp-SID (the
\* next accepted one gets the temp-SID the rejected one would have got);
\* after end_block the TxnSIDs of the block's transactions increase strictly
\* in the order of insertion.
C12_OrderWithinBlock ==
    [][/\ \A txn \in Txns :
             (CacheTransaction(txn) /\ block # None)
             => LET k == Len(OwnPending(Srv))
                IN  IF ret'[2] = "Ok"
                    THEN pending_txns'
                         = Append(pending_txns, <<k, TxnHandle_new(txn)>>)
                    ELSE /\ pending_txns' = pending_txns
                         /\ \A v \in Txns :
                               cache_transaction(Srv', v).ok
                               => cache_transaction(Srv', v).s.pending_txns
                                  = Append(pending_txns, <<k, TxnHandle_new(v)>>)
       /\ (EndBlock /\ block # None /\ panicked' = "")
          => TxnSIDsIncrease(Srv, txn_status')
       /\ \A txn \in Txns :
             (HandleTransaction(txn) /\ ret'[2] = "Ok" /\ block' = None)
             => TxnSIDsIncrease(AfterCaching(txn), txn_status')]_vars

\* C12 witness: two transactions with different handles have just been
\* cached in one open block, with temp-SIDs 0 and 1 in that order.
C12_Witness ==
    /\ ret[1] = "cache_transaction"
    /\ ret[2] = "Ok"
    /\ block # None
    /\ Len(pending_txns) = 2
    /\ pending_txns[1][1] = 0
    /\ pending_txns[2][1] = 1
    /\ pending_txns[1][2] # pending_txns[2][2]
    /\ ret[3] = pending_txns[2][2]

\* s is the server just before end_block, opened the committed ledger as it
\* was before the block was opened, status the status map after end_block:
\* the block's first transaction gets the TxnSID that was next before the
\* block was opened.
FirstTxnSID(s, opened, status) ==
    LET own == OwnPending(s)
        fin == LU_finish_block(s.committed_state, s.block[1]).finalized
    IN  own # <<>>
        => /\ fin[own[1][1]][1] = opened.txn_count
           /\ (\A j \in 2..Len(own) : own[j][2] # own[1][2])
              => status[own[1][2]][2] = opened.txn_count

\* C20: abort_block on an open block leaves the committed ledger (UTXO set,
\* asset registry, issuance counters, next TxnSID) as it was before the
\* begin_block that opened the block, whatever was cached in between; and
\* the first transaction of a block that is finished gets the TxnSID that
\* was next before its block was opened, so that a block aborted before it
\* leaves no gap.
C20_AbortPurity ==
    [][/\ (AbortBlock /\ block # None)
          => /\ committed_state' = at_begin[1]
             /\ block' = None
       /\ (EndBlock /\ block # None /\ panicked' = "")
          => FirstTxnSID(Srv, at_begin[1], txn_status')
       /\ \A txn \in Txns :
             (HandleTransaction(txn) /\ ret'[2] = "Ok" /\ block' = None)
             => FirstTxnSID(AfterCaching(txn),
                            IF block = None THEN committed_state ELSE at_begin[1],
                            txn_status')]_vars

\* C20 witness: one transaction was committed, then a block holding a valid
\* AssetCreation was opened and has just been aborted: the ledger holds one
\* transaction and no asset.
C20_Witness ==
    /\ ret[1] = "abort_block"
    /\ aborted # {}
    /\ \E h \in aborted : h[2][1] = "create"
    /\ block = None
    /\ committed_state.txn_count = 1
    /\ committed_state.tokens = {}
    /\ ~committed_state.block_open

(***************************************************************************)
(* Properties of LedgerState.                                              *)
(***************************************************************************)
\* C1: over transactions that validate_transaction accepted before they
\* were applied, no UtxoAddress is consumed as a transfer input more than
\* once: not by two transactions, not by two transfers of one transaction,
\* not twice in one input list.
C1_NoDoubleSpend == \A a \in DOMAIN consumed : consumed[a] <= 1

RECURSIVE BagSize(_)
BagSize(bag) ==
    IF DOMAIN bag = {} THEN 0
    ELSE LET a == CHOOSE x \in DOMAIN bag : TRUE
         IN  bag[a] + BagSize(Remove(bag, a))

\* C2: the UTXO set holds as many entries as the applied issuances and
\* transfers produced outputs, less the inputs the applied transfers listed.
C2_UtxoConservation ==
    Cardinality(DOMAIN utxos) = produced - BagSize(consumed)

\* C13: tx_index and the length of the transaction list both equal the
\* number of transactions applied so far: they start at 0 and each
\* apply_transaction adds one to both, also for a transaction without
\* outputs; every output the k-th applied transaction adds has
\* transaction_id k, and outputs of earlier transactions have smaller ones.
C13_GapFreeSequencing ==
    /\ [](/\ next_index.tx_index = Len(txs)
          /\ \A a \in DOMAIN utxos : a[1] < next_index.tx_index)
    /\ [][txs' # txs
          => /\ next_index'.tx_index = next_index.tx_index + 1
             /\ Len(txs') = Len(txs) + 1
             /\ SubSeq(txs', 1, Len(txs)) = txs
             /\ \A a \in (DOMAIN utxos') \ (DOMAIN utxos) :
                   a[1] = next_index.tx_index
             /\ OutputCount(txs'[Len(txs')].operations) > 0
                => \E a \in DOMAIN utxos' : a[1] = next_index.tx_index]_vars

\* C13 witness: two transactions were applied, the first without outputs,
\* and an output of the second is in the UTXO set with transaction_id 1.
C13_Witness ==
    /\ Len(txs) = 2
    /\ next_index.tx_index = 2
    /\ OutputCount(txs[1].operations) = 0
    /\ \E a \in DOMAIN utxos : a[1] = 1
    /\ valid = TRUE

\* The outputs an operation hands to add_txo, in order.
OpOutputs(op) ==
    CASE op.type = "AssetTransfer" -> op.body.transfer.outputs
      [] op.type = "AssetIssuance" -> op.body.outputs
      [] OTHER                     -> <<>>

\* (k, o, i) for the i-th output of the o-th operation, both counted from 0.
ExpectedAddresses(k, ops) ==
    UNION {{<<k, o - 1, i - 1>> : i \in 1..Len(OpOutputs(ops[o]))} :
              o \in 1..Len(ops)}

C15_CodeRegisteredOnce ==
    [][txs' # txs
       => LET ops == txs'[Len(txs')].operations
          IN  /\ \A o \in 1..Len(ops) :
                    ops[o].type = "AssetCreation"
                    => /\ ops[o].body.properties.code \notin DOMAIN tokens
                       /\ \A q \in 1..(o - 1) :
                             ~(/\ ops[q].type = "AssetCreation"
                               /\ ops[q].body.properties.code
                                  = ops[o].body.properties.code)
                       /\ tokens'[ops[o].body.properties.code].properties
                          = ops[o].body.properties
              /\ \A c \in DOMAIN tokens :
                    c \in DOMAIN tokens' /\ tokens'[c] = tokens[c]]_vars

\* The operations of the applied transactions, in the order of application.
RECURSIVE FlattenOps(_)
FlattenOps(ts) ==
    IF ts = <<>> THEN <<>> ELSE Head(ts).operations \o FlattenOps(Tail(ts))

IsIssuance(op) == op.type = "AssetIssuance"

AppliedIssuances == SelectSeq(FlattenOps(txs), IsIssuance)

\* C16: of two applied issuances of one asset code the later one has the
\* strictly greater seq_num; in particular no two have the same seq_num.
C16_NoIssuanceReplay ==
    \A i, j \in 1..Len(AppliedIssuances) :
        (/\ i < j
         /\ AppliedIssuances[i].body.code = AppliedIssuances[j].body.code)
        => AppliedIssuances[i].body.seq_num < AppliedIssuances[j].body.seq_num

\* An issuance of code c with seq_num 5 and one output, signed by the
\* issuer that the registry holds for c, alone in a transaction.
IssuanceBySeq5(c) ==
    Transaction(<<AssetIssuance(c, 5, <<TxOutput(1)>>,
                                LedgerSignature(tokens[c].properties.issuer,
                                                tokens[c].properties.issuer))>>)

\* C17: for a registered asset code with no applied issuance of seq_num 5 or
\* more, validate_transaction accepts an issuance with seq_num 5 signed by
\* the asset's issuer, and after apply_transaction check_utxo returns each of
\* its outputs.
C17_IssuanceAfterCreation ==
    \A c \in DOMAIN tokens :
        (\A i \in 1..Len(AppliedIssuances) :
            AppliedIssuances[i].body.code = c
            => AppliedIssuances[i].body.seq_num < 5)
        => /\ validate_transaction(Led, IssuanceBySeq5(c))
           /\ check_utxo(apply_transaction(Led, IssuanceBySeq5(c)),
                         <<next_index.tx_index, 0, 0>>) # None

\* A transaction of one AssetCreation for code c whose body names issuer i
\* and is signed by i.
CreationBy(c, i) ==
    Transaction(<<AssetCreation(c, i, LedgerSignature(i, i))>>)

\* C18: in every state, for every code not registered and every issuer,
\* validate_transaction accepts the creation signed by the issuer, and after
\* apply_transaction get_asset_token returns a token with the properties of
\* the creation body and 0 units; and every applied transaction that is one
\* AssetCreation leaves exactly that token in the registry.
C18_CreationRoundTrip ==
    /\ [](\A c \in LCodes \ DOMAIN tokens : \A i \in LKeys :
            /\ validate_transaction(Led, CreationBy(c, i))
            /\ get_asset_token(apply_transaction(Led, CreationBy(c, i)), c)
               = Some([properties |-> [code |-> c, issuer |-> i], units |-> 0]))
    /\ [][(txs' # txs /\ Len(txs'[Len(txs')].operations) = 1
                      /\ txs'[Len(txs')].operations[1].type = "AssetCreation")
          => LET create == txs'[Len(txs')].operations[1]
             IN  /\ create.body.properties.code \notin DOMAIN tokens
                 /\ get_asset_token(Led', create.body.properties.code)
                    = Some([properties |-> create.body.properties,
                            units |-> 0])]_vars

\* C18 witness: the one transaction applied so far is an AssetCreation of
\* code 1 with issuer 2, signed by key 2, and the registry holds its token.
C18_Witness ==
    /\ Len(txs) = 1
    /\ txs[1] = CreationBy(1, 2)
    /\ get_asset_token(Led, 1)
       = Some([properties |-> [code |-> 1, issuer |-> 2], units |-> 0])

\* C19: a transaction with an AssetCreation whose body_signature names a
\* key other than the one that signed is rejected by validate_transaction in
\* every ledger state, the other operations of the transaction being what
\* they may, and the ledger is as it was before the validation.
C19_BadCreationSignatureRejected ==
    [][bad_creation'
       => /\ valid' = FALSE
          /\ UNCHANGED <<txs, utxos, tokens, issuance_num, next_index>>]_vars

\* C19 witness: with a token registered and an output unspent, a
\* transaction with a badly signed AssetCreation has just been rejected.
C19_Witness ==
    /\ bad_creation
    /\ valid = FALSE
    /\ DOMAIN tokens # {}
    /\ DOMAIN utxos # {}


(***************************************************************************)
(* DelegationOps::apply as a state machine: a caller applies the           *)
(* Delegation operation self in the context of the transaction tx.         *)
(***************************************************************************)
MaxDOps     == 3    \* operations of a transaction
MaxDInputs  == 2    \* inputs of all transfers of a transaction
MaxDOutputs == 2    \* outputs of all transfers of a transaction

DKeys == {"D1", "D2"}

FRA(n, pk) ==
    BlindAssetRecord(NonConfidential(ASSET_TYPE_FRA), NonConfidential(n), pk)

\* Every input is one unit of the native asset.
DInputRecords == {FRA(1, k) : k \in DKeys}

DOutputRecords ==
    {FRA(1, COINBASE_PRINCIPAL_PK), FRA(2, COINBASE_PRINCIPAL_PK),
     BlindAssetRecord(Confidential, NonConfidential(1), COINBASE_PRINCIPAL_PK),
     BlindAssetRecord(NonConfidential(ASSET_TYPE_FRA), Confidential,
                      COINBASE_PRINCIPAL_PK),
     BlindAssetRecord(NonConfidential("BTC"), NonConfidential(1),
                      COINBASE_PRINCIPAL_PK),
     FRA(1, "D2")}

PlainDelegation == Delegation("D1", "A1", None, "D1")
StakingDelegation == Delegation("D1", "B2", Some(Validator("b2", TRUE)), "D1")

DelegationOpSet ==
    {PlainDelegation, StakingDelegation,
     Delegation("D1", "A1", None, "D2"),
     Delegation("D2", "A1", None, "D2"),
     Delegation("D1", "B2", None, "D1"),
     Delegation("D1", "B2", Some(Validator("b2", FALSE)), "D1"),
     Delegation("D1", "A1", Some(Validator("b2", TRUE)), "D1"),
     Delegation("D1", "B2", Some(Validator("b2", TRUE)), "D2")}

RECURSIVE SeqsOf(_, _)
SeqsOf(S, n) ==
    IF n = 0 THEN {<<>>}
    ELSE {<<x>> \o r : x \in S, r \in SeqsOf(S, n - 1)}

\* The operations that hold i inputs and o outputs; a transfer has an input.
DelegationTxnOps(i, o) ==
    IF i = 0 THEN (IF o = 0 THEN {PlainDelegation} ELSE {})
    ELSE {TransferAsset(ins, outs) :
            ins \in SeqsOf(DInputRecords, i), outs \in SeqsOf(DOutputRecords, o)}

\* The lists of at most n operations holding at most i inputs and o outputs.
RECURSIVE OperationLists(_, _, _)
OperationLists(n, i, o) ==
    {<<>>} \cup
    (IF n = 0 THEN {}
     ELSE UNION {{<<op>> \o rest : op \in DelegationTxnOps(a, b),
                                  rest \in OperationLists(n - 1, i - a, o - b)} :
                    a \in 0..i, b \in 0..o})

\* ops with self in the place of every Delegation.
Substitute(ops, self) ==
    [k \in 1..Len(ops) |-> IF ops[k].type = "Delegation" THEN self ELSE ops[k]]

\* The calls with transactions of at most n operations: the plain delegation
\* in every context, and every delegation in the contexts of one operation
\* less with one input and one output.
DelegationCalls(n) ==
    {[self |-> PlainDelegation, tx |-> DelegationTransaction(ops)] :
        ops \in OperationLists(n, MaxDInputs, MaxDOutputs)}
    \cup
    {[self |-> self, tx |-> DelegationTransaction(Substitute(ops, self))] :
        self \in DelegationOpSet, ops \in OperationLists(n - 1, 1, 1)}

\* The outcomes of the checks of Staking that self can reach.
Outcomes(self) ==
    [power_ok : IF self.body.validator_staking = None THEN {TRUE} ELSE BOOLEAN,
     delegate_ok : BOOLEAN]

AllPass == [power_ok |-> TRUE, delegate_ok |-> TRUE]

\* Tables that successful delegations leave behind.
StartTables ==
    {Staking_new,
     DelegationOps_apply(PlainDelegation, Staking_new,
        DelegationTransaction(<<PlainDelegation,
            TransferAsset(<<FRA(1, "D1")>>, <<FRA(1, COINBASE_PRINCIPAL_PK)>>)>>),
        AllPass).s,
     DelegationOps_apply(StakingDelegation, Staking_new,
        DelegationTransaction(<<StakingDelegation,
            TransferAsset(<<FRA(1, "D1")>>, <<FRA(2, COINBASE_PRINCIPAL_PK)>>)>>),
        AllPass).s}

\* ---- what the documentation says of a transaction, for the history ----
DelegationCount(tx) ==
    Cardinality({k \in 1..Len(tx.body.operations) :
                    tx.body.operations[k].type = "Delegation"})

\* The outputs <<k, j>> that pay the coinbase principal in the clear, in
\* the native asset, out of a transfer whose inputs all belong to D.
QualifyingOutputs(tx, D) ==
    LET ops == tx.body.operations
    IN  {kj \in UNION {{<<k, j>> : j \in 1..Len(ops[k].body.outputs)} :
                          k \in {k \in 1..Len(ops) : ops[k].type = "TransferAsset"}} :
            LET x == ops[kj[1]]
                r == x.body.outputs[kj[2]].record
            IN  /\ x.body.transfer.inputs # <<>>
                /\ \A i \in 1..Len(x.body.transfer.inputs) :
                      x.body.transfer.inputs[i].public_key = D
                /\ r.asset_type = NonConfidential(ASSET_TYPE_FRA)
                /\ r.amount[1] = "NonConfidential"
                /\ r.public_key = COINBASE_PRINCIPAL_PK}

RECURSIVE AmountOf(_, _)
AmountOf(tx, outs) ==
    IF outs = {} THEN 0
    ELSE LET kj == CHOOSE x \in outs : TRUE
         IN  tx.body.operations[kj[1]].body.outputs[kj[2]].record.amount[2]
             + AmountOf(tx, outs \ {kj})

\* What the delegator of tx pays for the stake, when tx has one delegator.
QualifyingPayment(tx) ==
    LET owner == DelegationOwners(tx.body.operations)
    IN  IF Len(owner) # 1 THEN 0
        ELSE AmountOf(tx, QualifyingOutputs(tx, owner[1]))

\* What the transfers of tx take from the native balance of its delegator:
\* the inputs of the delegator less the outputs in the clear to them.
RECURSIVE SpentBy(_, _)
SpentBy(operations, D) ==
    IF operations = <<>> THEN 0
    ELSE LET x == Head(operations)
         IN  (IF x.type # "TransferAsset" THEN 0
              ELSE Cardinality({i \in 1..Len(x.body.transfer.inputs) :
                                   x.body.transfer.inputs[i].public_key = D})
                   - OutputsSum(x.body.outputs, D))
             + SpentBy(Tail(operations), D)

NativeSpent(tx) ==
    LET owner == DelegationOwners(tx.body.operations)
    IN  IF Len(owner) # 1 THEN 0 ELSE SpentBy(tx.body.operations, owner[1])

\* Every transfer of tx has outputs in the clear, in the native asset, that
\* sum to its inputs: the transfers the ledger accepts among those drawn.
Balanced(tx) ==
    \A k \in 1..Len(tx.body.operations) :
        LET x == tx.body.operations[k]
        IN  x.type = "TransferAsset" =>
              /\ \A j \in 1..Len(x.body.outputs) :
                    /\ x.body.outputs[j].record.asset_type
                          = NonConfidential(ASSET_TYPE_FRA)
                    /\ x.body.outputs[j].record.amount[1] = "NonConfidential"
              /\ Len(x.body.transfer.inputs)
                    = OutputsSum(x.body.outputs, COINBASE_PRINCIPAL_PK)
                      + OutputsSum(x.body.outputs, "D1")
                      + OutputsSum(x.body.outputs, "D2")

InitDelegation ==
    /\ ServerIdle
    /\ LedgerIdle
    /\ AbciIdle
    /\ LockIdle
    /\ staking \in StartTables
    /\ dlg = NoCall
    /\ amt = NoContext

ApplyDelegation(self, tx, env) ==
    /\ dlg.ret = "none"
    /\ LET r == DelegationOps_apply(self, staking, tx, env)
       IN  /\ staking' = r.s
           /\ dlg' = [ret |-> IF r.ok THEN "Ok" ELSE "Err",
                      self |-> Some(self),
                      before |-> staking,
                      delegated |-> r.delegated,
                      context |-> check_delegation_context(tx),
                      delegations |-> DelegationCount(tx),
                      paid |-> QualifyingPayment(tx),
                      spent |-> NativeSpent(tx),
                      balanced |-> Balanced(tx),
                      env |-> env]
    /\ UNCHANGED <<srvVars, ledVars, abciVars, lockVars, ordVars, amt>>

NextDelegation ==
    /\ dlg.ret = "none"
    /\ \E c \in DelegationCalls(MaxDOps) : \E env \in Outcomes(c.self) :
          ApplyDelegation(c.self, c.tx, env)

SpecDelegation == InitDelegation /\ [][NextDelegation]_vars

(***************************************************************************)
(* Properties of DelegationOps.                                            *)
(***************************************************************************)
\* C21: whenever DelegationOps::apply returns an error, the Staking instance
\* it was given equals its value before the call; a validator registered by
\* check_set_context does not stay when delegate fails after it.
C21_FailureIsAtomic == dlg.ret = "Err" => staking = dlg.before

\* C22: check_delegation_context returns an error for every transaction with
\* no Delegation operation or with two or more, so apply fails in the context
\* of such a transaction.
C22_OneDelegationPerTransaction ==
    dlg.ret # "none" /\ dlg.delegations # 1
        => ~dlg.context.ok /\ dlg.ret = "Err"

\* A correctly signed Delegation was applied in a context with two of them.
C22_Witness ==
    /\ dlg.delegations >= 2
    /\ dlg.ret = "Err"
    /\ dlg.self = Some(PlainDelegation)

C24_NoPaymentNoDelegation ==
    dlg.ret # "none" /\ dlg.delegations = 1 /\ dlg.paid = 0
        => /\ dlg.ret = "Err"
           /\ dlg.delegated = <<>>
           /\ staking = dlg.before

\* A correctly signed Delegation with a validator to register was applied
\* without payment.
C24_Witness ==
    /\ dlg.delegations = 1
    /\ dlg.paid = 0
    /\ dlg.self = Some(StakingDelegation)
    /\ dlg.ret = "Err"
    /\ staking = dlg.before

Stake(st, D, V) ==
    IF <<D, V>> \in DOMAIN st.delegations THEN st.delegations[<<D, V>>] ELSE 0

CFG ==
    [checkpoint |-> [disable_evm_block_height |-> 1,
                     enable_frc20_height      |-> 3,
                     fix_exec_code            |-> 1,
                     utxo_checktx_height      |-> 1]]

\* A ledger transaction as the callbacks see it: what the server caches, and
\* the answers of valid_in_abci(), is_convert_account() and check_tx().
AbciTx(txn, valid_in_abci, convert_account, check_ok) ==
    [txn |-> txn, valid_in_abci |-> valid_in_abci,
     convert_account |-> convert_account, check_ok |-> check_ok]

\* req.get_tx(): bytes of a catalog that parse to tx, or do not parse (None).
RawTx(catalog, tx) == [catalog |-> catalog, tx |-> tx]

try_tx_catalog(raw) == raw.catalog

\* Ok(tx) is Some(tx), Err is None.
convert_tx(raw) == raw.tx

hash_tm_rawbytes(tx) == <<"sha256", tx.txn, tx.valid_in_abci, tx.convert_account,
                          tx.check_ok>>

evm_disabled(h) ==
    /\ CFG.checkpoint.disable_evm_block_height < h
    /\ h < CFG.checkpoint.enable_frc20_height

Response(code, log) == [code |-> code, log |-> log]

\* app_code is what account_base_app answers to an EVM transaction.
check_tx(history, height, raw, field_type, app_code) ==
    CASE try_tx_catalog(raw) = "FindoraTx" ->
            IF field_type = "New"
            THEN IF convert_tx(raw) # None
                 THEN LET tx == convert_tx(raw)[1]
                      IN  IF ~tx.valid_in_abci
                          THEN Response(1, "Should not appear in ABCI")
                          ELSE IF hash_tm_rawbytes(tx) \in history
                          THEN Response(1, "Historical transaction")
                          ELSE Response(0, "")
                 ELSE Response(0, "Invalid format")
            ELSE Response(0, "")
      [] try_tx_catalog(raw) = "EvmTx" ->
            IF evm_disabled(height)
            THEN Response(2, "EVM is disabled")
            ELSE Response(app_code, "account_base_app")
      [] OTHER -> Response(1, "Unknown transaction")

\* The number of transactions in the open block.
block_txn_count(s) == IF s.block = None THEN 0 ELSE Len(s.block[1].txns)

\* The begin_block callback and info: a block is begun when nothing is pending.
begin_if_all_commited(s) == IF all_commited(s) THEN begin_block(s) ELSE s

\* deliver_tx.  env.app_ok: deliver_findora_tx succeeds; env.app_code: what
\* account_base_app answers to an EVM transaction.  spawned is the task
\* given to POOL, added tells whether cache_transaction returned Ok.
Delivered(s, code, log, spawned, added) ==
    [s |-> s, code |-> code, log |-> log, spawned |-> spawned, added |-> added]

\* deliver_cached that leaves the code at 0 when cache_transaction fails.
deliver_cached_NoCode(s, tx, spawned) ==
    LET c == cache_transaction(s, tx.txn)
    IN  IF c.ok THEN Delivered(c.s, 0, "", spawned, TRUE)
        ELSE Delivered(c.s, 0, "cache_transaction", spawned, FALSE)

\* cache_transaction, with code 1 for its error.
deliver_cached(s, tx, spawned) ==
    LET c == cache_transaction(s, tx.txn)
    IN  IF c.ok THEN Delivered(c.s, 0, "", spawned, TRUE)
        ELSE Delivered(c.s, 1, "cache_transaction", spawned, FALSE)

deliver_tx(s, height, raw, env) ==
    CASE try_tx_catalog(raw) = "FindoraTx" ->
            IF convert_tx(raw) # None
            THEN LET tx == convert_tx(raw)[1]
                     spawned == {hash_tm_rawbytes(tx)}
                 IN  IF tx.valid_in_abci
                     THEN IF evm_disabled(height)
                          THEN IF tx.convert_account
                               THEN Delivered(s, 2, "EVM is disabled", spawned, FALSE)
                               ELSE deliver_cached(s, tx, spawned)
                          ELSE IF tx.convert_account
                          THEN IF ~env.app_ok
                               THEN Delivered(s, 1, "deliver convert account tx failed",
                                              spawned, FALSE)
                               ELSE LET c == cache_transaction(s, tx.txn)
                                    IN  IF c.ok
                                        THEN Delivered(c.s, 0, "", spawned, TRUE)
                                        ELSE IF height > CFG.checkpoint.fix_exec_code
                                        THEN Delivered(c.s, 1, "cache_transaction failed",
                                                       spawned, FALSE)
                                        ELSE Delivered(c.s, 0, "", spawned, FALSE)
                          ELSE IF CFG.checkpoint.utxo_checktx_height < height
                          THEN IF tx.check_ok
                               THEN deliver_cached(s, tx, spawned)
                               ELSE Delivered(s, 1, "check_tx", spawned, FALSE)
                          ELSE deliver_cached(s, tx, spawned)
                     ELSE Delivered(s, 1, "Should not appear in ABCI", spawned, FALSE)
            ELSE Delivered(s, 1, "Invalid data format", {}, FALSE)
      [] try_tx_catalog(raw) = "EvmTx" ->
            IF evm_disabled(height)
            THEN Delivered(s, 2, "EVM is disabled", {}, FALSE)
            ELSE Delivered(s, env.app_code, "account_base_app", {}, FALSE)
      [] OTHER -> Delivered(s, 1, "Unknown transaction", {}, FALSE)

\* end_block that ends the block whatever it holds.
abci_end_block_AlwaysEnds(s, mint) ==
    LET c == IF mint = None THEN [s |-> s, ok |-> TRUE]
             ELSE cache_transaction(s, mint[1])
        s1 == IF c.ok THEN c.s
              ELSE [c.s EXCEPT !.panicked = "end_block: cache_transaction(tx).unwrap()"]
    IN  IF s1.panicked # "" THEN s1
        ELSE LET e == end_block(s1)
             IN  IF e.ok THEN e.s
                 ELSE [e.s EXCEPT !.panicked =
                          IF @ # "" THEN @ ELSE "end_block: pnk!(la.end_block())"]

\* end_block: the system transaction that system_mint_pay may return is
\* cached (unwrap), and the block is ended when it holds a transaction.
abci_end_block(s, mint) ==
    LET c == IF mint = None THEN [s |-> s, ok |-> TRUE]
             ELSE cache_transaction(s, mint[1])
        s1 == IF c.ok THEN c.s
              ELSE [c.s EXCEPT !.panicked = "end_block: cache_transaction(tx).unwrap()"]
    IN  IF s1.panicked # "" THEN s1
        ELSE IF ~all_commited(s1) /\ block_txn_count(s1) # 0
        THEN LET e == end_block(s1)
             IN  IF e.ok THEN e.s
                 ELSE [e.s EXCEPT !.panicked =
                          IF @ # "" THEN @ ELSE "end_block: pnk!(la.end_block())"]
        ELSE s1

(***************************************************************************)
(* The callbacks as a state machine.  The consensus engine calls           *)
(* begin_block, deliver_tx*, end_block, commit in turn, info before the    *)
(* first block, and check_tx at any time; the tasks of POOL run when the   *)
(* pool gets to them.                                                      *)
(***************************************************************************)
MaxHeight    == 3    \* block heights
MaxDelivered == 1    \* calls of deliver_tx

\* Transactions the server accepts and refuses, plain and convert-account,
\* one that fails its pre-check and one that is not valid in ABCI.
AbciTxs ==
    {AbciTx(txn, TRUE, c, TRUE) :
        txn \in {Txn("none", 0, 0, 0), Txn("badsig", 0, 0, 0)}, c \in BOOLEAN}
    \cup {AbciTx(Txn("none", 0, 0, 0), TRUE, FALSE, FALSE),
          AbciTx(Txn("none", 0, 0, 0), FALSE, FALSE, TRUE)}

RawTxs ==
    {RawTx("Unknown", None), RawTx("EvmTx", None), RawTx("FindoraTx", None)}
    \cup {RawTx("FindoraTx", Some(tx)) : tx \in AbciTxs}

\* No call consults both outcomes, so they are drawn together.
AppOutcomes == {[app_ok |-> TRUE, app_code |-> 0], [app_ok |-> FALSE, app_code |-> 1]}

\* The system transaction of end_block.
MintTxn == Txn("none", 0, 0, 1)

\* The hash of the request, when it parses as a ledger transaction.
HashOf(raw) ==
    IF raw.catalog = "FindoraTx" /\ raw.tx # None
    THEN {hash_tm_rawbytes(raw.tx[1])} ELSE {}

\* A node that starts with a ledger committed at height h.
InitAbci ==
    /\ ServerIdle
    /\ LedgerIdle
    /\ DelegationIdle
    /\ LockIdle
    /\ tx_history = {}
    /\ pool = {}
    /\ td_height = 0
    /\ committed_height \in 0..(MaxHeight - 1)
    /\ phase = [at |-> "start", info |-> FALSE, delivered |-> 0]
    /\ resp = NoResponse

Served(s, cb, code, log, raw, kind, recorded, added, height) ==
    /\ InstallServer(s, cb, TRUE, NoHandle)
    /\ UNCHANGED aborted
    /\ resp' = [cb |-> cb, code |-> code, log |-> log, req |-> raw, kind |-> kind,
                recorded |-> recorded, added |-> added, height |-> height]
    /\ UNCHANGED <<ledVars, dlgVars, lockVars, ordVars>>

\* The node runs.  check_tx changes nothing but its response: what can
\* follow it is what can follow the state it was called in, and is not
\* explored a second time.
Serving == Running /\ resp.cb # "check_tx"

InfoCallback ==
    /\ Serving
    /\ phase.at = "start"
    /\ td_height' = committed_height
    /\ phase' = [phase EXCEPT !.at = "ready", !.info = TRUE]
    /\ Served(begin_if_all_commited(Srv), "info", 0, "", None, "", FALSE, FALSE,
              committed_height)
    /\ UNCHANGED <<tx_history, pool, committed_height>>

\* check_tx that records the hash of what it checks, as deliver_tx does.
CheckTxCallback_Records(raw, field_type, app_code) ==
    /\ Serving
    /\ LET r == check_tx(tx_history, td_height, raw, field_type, app_code)
       IN  Served(Srv, "check_tx", r.code, r.log, Some(raw), field_type,
                  HashOf(raw) \subseteq (tx_history \cup pool) /\ HashOf(raw) # {},
                  FALSE, td_height)
    /\ tx_history' = tx_history \cup HashOf(raw)
    /\ UNCHANGED <<pool, td_height, committed_height, phase>>

CheckTxCallback(raw, field_type, app_code) ==
    /\ Serving
    /\ LET r == check_tx(tx_history, td_height, raw, field_type, app_code)
       IN  Served(Srv, "check_tx", r.code, r.log, Some(raw), field_type,
                  HashOf(raw) \subseteq (tx_history \cup pool) /\ HashOf(raw) # {},
                  FALSE, td_height)
    /\ UNCHANGED <<tx_history, pool, td_height, committed_height, phase>>

BeginBlockCallback ==
    /\ Serving
    /\ phase.at \in {"start", "ready", "committed"}
    /\ committed_height < MaxHeight
    /\ td_height' = committed_height + 1
    /\ phase' = [phase EXCEPT !.at = "block"]
    /\ Served(begin_if_all_commited(Srv), "begin_block", 0, "", None, "", FALSE,
              FALSE, committed_height + 1)
    /\ UNCHANGED <<tx_history, pool, committed_height>>

DeliverTxCallback(raw, env) ==
    /\ Serving
    /\ phase.at = "block"
    /\ phase.delivered < MaxDelivered
    /\ LET d == deliver_tx(Srv, td_height, raw, env)
       IN  /\ pool' = pool \cup d.spawned
           /\ Served(d.s, "deliver_tx", d.code, d.log, Some(raw), "", d.spawned # {},
                     d.added, td_height)
    /\ phase' = [phase EXCEPT !.delivered = @ + 1]
    /\ UNCHANGED <<tx_history, td_height, committed_height>>

EndBlockCallback(mint) ==
    /\ Serving
    /\ phase.at = "block"
    /\ phase' = [phase EXCEPT !.at = "ended"]
    /\ Served(abci_end_block(Srv, mint), "end_block", 0, "", None, "", FALSE,
              mint # None, td_height)
    /\ UNCHANGED <<tx_history, pool, td_height, committed_height>>

CommitCallback ==
    /\ Serving
    /\ phase.at = "ended"
    /\ phase' = [phase EXCEPT !.at = "committed"]
    /\ committed_height' = td_height
    /\ Served(Srv, "commit", 0, "", None, "", FALSE, FALSE, td_height)
    /\ UNCHANGED <<tx_history, pool, td_height>>

\* A task of POOL: TX_HISTORY.write().set_value(txhash, ..).
RunHistoryTask(txhash) ==
    /\ Serving
    /\ txhash \in pool
    /\ tx_history' = tx_history \cup {txhash}
    /\ pool' = pool \ {txhash}
    /\ UNCHANGED <<srvVars, ledVars, dlgVars, lockVars, ordVars, td_height,
                   committed_height, phase, resp>>

NextAbci ==
    \/ InfoCallback
    \/ \E raw \in RawTxs, field_type \in {"New", "Recheck"}, app_code \in {0, 1} :
          CheckTxCallback(raw, field_type, app_code)
    \/ BeginBlockCallback
    \/ \E raw \in RawTxs, env \in AppOutcomes : DeliverTxCallback(raw, env)
    \/ \E mint \in {None, Some(MintTxn)} : EndBlockCallback(mint)
    \/ CommitCallback
    \/ \E txhash \in pool : RunHistoryTask(txhash)

SpecAbci == InitAbci /\ [][NextAbci]_vars


(***************************************************************************)
(* Properties of the callbacks.                                            *)
(***************************************************************************)
\* C26: check_tx answers with a non-zero code to every new transaction of
\* unknown catalog, to every ledger transaction whose bytes do not parse,
\* that is not valid in ABCI or whose hash is in the transaction history.
C26_CheckTxRejects ==
    resp.cb = "check_tx" /\ resp.kind = "New"
        => LET raw == resp.req[1]
           IN  \/ raw.catalog = "Unknown"
               \/ /\ raw.catalog = "FindoraTx"
                  /\ \/ raw.tx = None
                     \/ ~raw.tx[1].valid_in_abci
                     \/ hash_tm_rawbytes(raw.tx[1]) \in tx_history
               => resp.code # 0

\* The convert-account path outside the window in which EVM is disabled, at
\* a height up to the checkpoint fix_exec_code.
LegacyConvertPath(raw, height) ==
    /\ raw.catalog = "FindoraTx"
    /\ raw.tx # None
    /\ raw.tx[1].valid_in_abci
    /\ raw.tx[1].convert_account
    /\ ~evm_disabled(height)
    /\ height <= CFG.checkpoint.fix_exec_code

C28_HistoryRecorded ==
    resp.cb = "check_tx" /\ resp.kind = "New" /\ resp.recorded
        => resp.code # 0

\* C29: in the callback sequences that start with info, the server's
\* begin_block is never called with a block open, and a block is open after
\* every begin_block callback.
C29_BeginBlockOnlyWhenNoneOpen ==
    phase.info
        => /\ panicked # "begin_block: assert!(self.block.is_none())"
           /\ resp.cb = "begin_block" => block # None


(***************************************************************************)
(* The lock around the ledger.  committed_state is an Arc<RwLock<LU>> that *)
(* borrowable_ledger_state hands to other threads; the server's operations *)
(* run on one thread (&mut self).  begin_block, end_block and abort_block  *)
(* ask for write access, cache_transaction for read access, and holds it   *)
(* while apply_transaction runs.                                           *)
(***************************************************************************)
ServerThread == "server"

\* The threads that hold a clone of the lock and read the ledger.
QueryThreads == {"query1", "query2"}

\* RwLock::read returns when nobody writes, RwLock::write when nobody holds
\* the lock.
CanRead(l) == l.writer = None
CanWrite(l) == l.writer = None /\ l.readers = {}

\* The guard of cache_transaction (line 125).
cache_transaction_guard(l) ==
    [readers |-> l.readers \cup {ServerThread}, writer |-> l.writer]

\* The guard is dropped when cache_transaction returns.
drop_guard(l, t) ==
    [readers |-> l.readers \ {t},
     writer  |-> IF l.writer = Some(t) THEN None ELSE l.writer]

InitLock == ServerIdle /\ LedgerIdle /\ DelegationIdle /\ AbciIdle /\ LockIdle

\* begin_block: the assertion, then write access for start_block.
LockBeginBlock ==
    /\ Running
    /\ applying = None
    /\ block = None => CanWrite(ledger_lock)
    /\ InstallServer(begin_block(Srv), "begin_block", TRUE, NoHandle)
    /\ UNCHANGED <<aborted, ledVars, dlgVars, abciVars, lockVars, ordVars>>

\* end_block: write access for finish_block when a block is open.
LockEndBlock ==
    /\ Running
    /\ applying = None
    /\ block # None => CanWrite(ledger_lock)
    /\ LET r == end_block(Srv) IN InstallServer(r.s, "end_block", r.ok, r.handle)
    /\ UNCHANGED <<aborted, ledVars, dlgVars, abciVars, lockVars, ordVars>>

\* abort_block: write access for the ledger's abort_block when a block is open.
LockAbortBlock ==
    /\ Running
    /\ applying = None
    /\ block # None => CanWrite(ledger_lock)
    /\ InstallServer(abort_block(Srv), "abort_block", TRUE, NoHandle)
    /\ aborted' = IF block = None THEN aborted
                  ELSE aborted \cup PendingHandles(pending_txns)
    /\ UNCHANGED <<ledVars, dlgVars, abciVars, lockVars, ordVars>>

\* cache_transaction up to line 125: with no block open it returns its error,
\* with a block open it takes its guard on the ledger.
CacheTransactionEnter(txn) ==
    /\ Running
    /\ applying = None
    /\ Len(pending_txns) < MaxPending
    /\ Applied < MaxTxnSID
    /\ IF block = None
       THEN /\ LET r == cache_transaction(Srv, txn)
               IN  InstallServer(r.s, "cache_transaction", r.ok, r.handle)
            /\ aborted' = aborted \ {TxnHandle_new(txn)}
            /\ UNCHANGED lockVars
       ELSE /\ CanRead(ledger_lock)
            /\ ledger_lock' = cache_transaction_guard(ledger_lock)
            /\ applying' = Some(txn)
            /\ UNCHANGED srvVars
    /\ UNCHANGED <<ledVars, dlgVars, abciVars, ordVars>>

\* Lines 126-131: compute_effect and apply_transaction under the guard, then
\* the return, which drops it.
CacheTransactionApply ==
    /\ applying # None
    /\ LET r == cache_transaction(Srv, applying[1])
       IN  InstallServer(r.s, "cache_transaction", r.ok, r.handle)
    /\ aborted' = aborted \ {TxnHandle_new(applying[1])}
    /\ ledger_lock' = drop_guard(ledger_lock, ServerThread)
    /\ applying' = None
    /\ UNCHANGED <<ledVars, dlgVars, abciVars, ordVars>>

\* Another thread takes read access to the ledger.
QueryRead(t) ==
    /\ t \notin ledger_lock.readers
    /\ CanRead(ledger_lock)
    /\ ledger_lock' = [ledger_lock EXCEPT !.readers = @ \cup {t}]
    /\ UNCHANGED <<srvVars, ledVars, dlgVars, abciVars, applying, ordVars>>

\* and gives it back.
QueryDone(t) ==
    /\ t \in ledger_lock.readers
    /\ ledger_lock' = drop_guard(ledger_lock, t)
    /\ UNCHANGED <<srvVars, ledVars, dlgVars, abciVars, applying, ordVars>>

NextLock ==
    \/ LockBeginBlock
    \/ LockEndBlock
    \/ LockAbortBlock
    \/ \E txn \in Txns : CacheTransactionEnter(txn)
    \/ CacheTransactionApply
    \/ \E t \in QueryThreads : QueryRead(t)
    \/ \E t \in QueryThreads : QueryDone(t)

SpecLock == InitLock /\ [][NextLock]_vars

\* C30: for the whole time cache_transaction applies a transaction to the
\* open block the server holds the ledger lock for writing, and no other
\* thread holds read access to the ledger.
C30_AppliesUnderWriteLock ==
    applying # None
        => /\ ledger_lock.writer = Some(ServerThread)
           /\ ledger_lock.readers \subseteq {ServerThread}

\* The consequence alone: nobody else reads while a transaction is applied.
NoReaderWhileApplying ==
    applying # None => ledger_lock.readers \subseteq {ServerThread}


(***************************************************************************)
(* The locks of the callbacks.  A callback is the sequence of lock         *)
(* requests and releases it makes, one sequence per path through its       *)
(* branches; a guard that is a temporary is released at the end of its     *)
(* statement (of the whole `if let` when it is in the scrutinee), a guard  *)
(* bound by `let` at drop() or at the end of its scope.                    *)
(***************************************************************************)
Acq(l, m) == [op |-> "acq", lock |-> l, mode |-> m]
Rel(l) == [op |-> "rel", lock |-> l, mode |-> "none"]

\* SubmissionServer::begin_block, end_block: committed_state.write().
server_begin_block_locks == <<Acq("ledger", "write"), Rel("ledger")>>
server_end_block_locks == <<Acq("ledger", "write"), Rel("ledger")>>

\* SubmissionServer::cache_transaction: committed_state.read().
server_cache_transaction_locks == <<Acq("ledger", "read"), Rel("ledger")>>

\* s.account_base_app.write() / .read() as a temporary.
app_write == <<Acq("app", "write"), Rel("app")>>
app_read == <<Acq("app", "read"), Rel("app")>>

\* info that keeps `state` until it returns.
info_locks_NoDrop ==
    {<<Acq("la", "write"), Acq("ledger", "write")>> \o app \o bb
        \o <<Rel("ledger"), Rel("la")>> :
        app \in {<<>>, app_write}, bb \in {<<>>, server_begin_block_locks}}

\* info: la, state, account_base_app.info when 0 < h outside the window in
\* which EVM is disabled, drop(state), la.begin_block() if all is committed.
info_locks ==
    {<<Acq("la", "write"), Acq("ledger", "write")>> \o app \o <<Rel("ledger")>>
        \o bb \o <<Rel("la")>> :
        app \in {<<>>, app_write}, bb \in {<<>>, server_begin_block_locks}}

\* begin_block: REQ_BEGIN_BLOCK, la, the height, la.begin_block() or the
\* staking simulator, account_base_app.begin_block.
begin_block_locks ==
    {<<Acq("req", "write"), Rel("req"), Acq("la", "write"),
       Acq("ledger", "write"), Rel("ledger")>> \o bb \o app \o <<Rel("la")>> :
        bb \in {<<>>, server_begin_block_locks}, app \in {<<>>, app_write}}

\* deliver_tx: nothing (no parse, not valid, EVM disabled), the account
\* application alone, cache_transaction alone, or the convert-account path.
deliver_tx_locks ==
    {<<>>,
     app_write,
     <<Acq("la", "write")>> \o server_cache_transaction_locks \o <<Rel("la")>>,
     app_write \o <<Acq("la", "write")>> \o server_cache_transaction_locks
        \o <<Rel("la")>> \o app_read \o app_read}

\* end_block: REQ_BEGIN_BLOCK and la to the end; laa and account_base_app for
\* system_mint_pay, drop(laa) before the mint transaction is cached;
\* la.end_block() when transactions are pending; get_validators, system_ops,
\* account_base_app.end_block.
end_block_locks ==
    {<<Acq("req", "write"), Acq("la", "write"), Acq("ledger", "read"),
       Acq("app", "write")>> \o mint \o eb
        \o <<Acq("ledger", "read"), Rel("ledger"), Acq("ledger", "write"),
             Rel("ledger")>> \o app \o <<Rel("la"), Rel("req")>> :
        mint \in {<<Rel("app"), Rel("ledger")>>,
                  <<Rel("ledger")>> \o server_cache_transaction_locks
                      \o <<Rel("app")>>},
        eb \in {<<>>, server_end_block_locks},
        app \in {<<>>, app_write}}

\* commit: la and state to the end, account_base_app.commit under both.
commit_locks ==
    {<<Acq("la", "write"), Acq("ledger", "write")>> \o app_write
        \o <<Rel("ledger"), Rel("la")>>}

Callbacks ==
    {[cb |-> "info", prog |-> p, pc |-> 1] : p \in info_locks}
    \cup {[cb |-> "begin_block", prog |-> p, pc |-> 1] : p \in begin_block_locks}
    \cup {[cb |-> "deliver_tx", prog |-> p, pc |-> 1] : p \in deliver_tx_locks}
    \cup {[cb |-> "end_block", prog |-> p, pc |-> 1] : p \in end_block_locks}
    \cup {[cb |-> "commit", prog |-> p, pc |-> 1] : p \in commit_locks}

\* The thread is inside a callback, at a request or a release.
Busy(t) == thread[t].pc <= Len(thread[t].prog)
Current(t) == thread[t].prog[thread[t].pc]

Holds(t, l) == t \in locks[l].readers \/ locks[l].writer = Some(t)
Requests(t, l) == Busy(t) /\ Current(t).op = "acq" /\ Current(t).lock = l

\* RwLock: read is granted while nobody writes, write while nobody holds.
Granted(l, m) ==
    IF m = "read" THEN locks[l].writer = None ELSE locks[l] = Free

CanStep(t) ==
    Busy(t) /\ (Current(t).op = "acq" => Granted(Current(t).lock, Current(t).mode))

InitOrder == ServerIdle /\ LedgerIdle /\ DelegationIdle /\ AbciIdle /\ LockIdle

\* The consensus engine calls a callback on a thread that has returned.
CallCallback(t, c) ==
    /\ ~Busy(t)
    /\ thread' = [thread EXCEPT ![t] = c]
    /\ UNCHANGED <<srvVars, ledVars, dlgVars, abciVars, lockVars, locks>>

Acquire(t) ==
    /\ Busy(t)
    /\ Current(t).op = "acq"
    /\ Granted(Current(t).lock, Current(t).mode)
    /\ locks' = [locks EXCEPT ![Current(t).lock] =
                    IF Current(t).mode = "read"
                    THEN [@ EXCEPT !.readers = @ \cup {t}]
                    ELSE [@ EXCEPT !.writer = Some(t)]]
    /\ thread' = [thread EXCEPT ![t].pc = @ + 1]
    /\ UNCHANGED <<srvVars, ledVars, dlgVars, abciVars, lockVars>>

Release(t) ==
    /\ Busy(t)
    /\ Current(t).op = "rel"
    /\ locks' = [locks EXCEPT ![Current(t).lock] = drop_guard(@, t)]
    /\ thread' = [thread EXCEPT ![t].pc = @ + 1]
    /\ UNCHANGED <<srvVars, ledVars, dlgVars, abciVars, lockVars>>

NextOrder ==
    \/ \E t \in CallbackThreads, c \in Callbacks : CallCallback(t, c)
    \/ \E t \in CallbackThreads : Acquire(t)
    \/ \E t \in CallbackThreads : Release(t)

SpecOrder == InitOrder /\ [][NextOrder]_vars

\* C31: a callback that asks for the ledger lock holds the SubmissionServer
\* lock and no guard on the ledger, a callback that asks for the
\* SubmissionServer lock holds no guard on the ledger, and whenever a
\* callback is running some running callback can take its next step.
C31_LockOrder ==
    /\ \A t \in CallbackThreads :
          /\ Requests(t, "ledger") => Holds(t, "la") /\ ~Holds(t, "ledger")
          /\ Requests(t, "la") => ~Holds(t, "ledger")
    /\ (\E t \in CallbackThreads : Busy(t)) => \E t \in CallbackThreads : CanStep(t)

\* One callback waits for the SubmissionServer lock while the other, which
\* holds it, waits for nothing and asks for the ledger.
C31_Witness ==
    \E t, u \in CallbackThreads :
        /\ t # u
        /\ Requests(t, "la") /\ ~CanStep(t)
        /\ Holds(u, "la") /\ Requests(u, "ledger") /\ CanStep(u)


\* The step of the end_block callback, when it returns.
EndBlockReturns ==
    phase.at = "block" /\ phase'.at = "ended" /\ panicked' = ""

\* What is pending once the system transaction, if any, is cached.
PendingAtEnd == Len(pending_txns) + (IF resp'.added THEN 1 ELSE 0)

\* C32: the end_block callback finalizes the block exactly when something is
\* pending once the optional mint transaction is cached: the pending
\* transactions then get their TxnSIDs; with nothing pending the block stays
\* open as it was and the committed ledger is left alone.
C32_EndBlockFinalizesIffPending ==
    [][EndBlockReturns
        => /\ block # None
           /\ IF PendingAtEnd > 0
              THEN /\ block' = None
                   /\ pending_txns' = <<>>
                   /\ committed_state'.txn_count
                        = committed_state.txn_count + PendingAtEnd
              ELSE /\ block' = block
                   /\ pending_txns' = <<>>
                   /\ committed_state' = committed_state]_vars

\* end_block returned on a block in which nothing was cached: it is still open.
C32_Witness ==
    /\ resp.cb = "end_block"
    /\ ~resp.added
    /\ panicked = ""
    /\ block # None
    /\ pending_txns = <<>>
    /\ committed_state.txn_count = 0


\* C33: after apply_transaction of an issuance of a registered code c with
\* seq_num 5, signed by the issuer, the issuance counter of c is 5, and the
\* same issuance is then rejected by validate_transaction.
C33_IssuanceCounterAdvances ==
    \A c \in DOMAIN tokens :
        LET after == apply_transaction(Led, IssuanceBySeq5(c))
        IN  /\ c \in DOMAIN after.issuance_num
            /\ after.issuance_num[c] = 5
            /\ ~validate_transaction(after, IssuanceBySeq5(c))


\* C34: validate_transaction returns false for every transaction in which a
\* transfer lists an input that is not in the UTXO set, never created or
\* already spent, or an input whose owner no operation signature names.
C34_MissingInputRejected == bad_input # {} => valid = FALSE

\* A transfer that names an address spent by an applied transaction has
\* been refused.
C34_Witness ==
    /\ bad_input = {"spent"}
    /\ valid = FALSE
    /\ DOMAIN consumed # {}


\* check_set_context was called for a body that carries validator_staking.
SelfBond ==
    /\ dlg.ret # "none"
    /\ DelegationOps_verify(dlg.self[1])
    /\ dlg.self[1].body.validator_staking # None

\* The three checks of the record, the amount and the address.
SelfBondChecks ==
    LET v == dlg.self[1].body.validator_staking[1]
    IN  /\ dlg.context.ok
        /\ staking_is_basic_valid(v)
        /\ dlg.context.am >= STAKING_VALIDATOR_MIN_POWER
        /\ dlg.self[1].body.validator = hex_encode_upper(v.td_addr)

\* The validator of the body is new in the table, at the height the table
\* had, with the stake amount as its power.
SelfBondRegistered ==
    LET addr == hex_encode_upper(dlg.self[1].body.validator_staking[1].td_addr)
    IN  /\ addr \notin DOMAIN dlg.before.validators
        /\ addr \in DOMAIN staking.validators
        /\ staking.validators[addr]
             = [td_power |-> dlg.context.am, height |-> dlg.before.cur_height]

\* C35 as stated: with validator_staking in the body, the validator is
\* registered at the current height with td_power equal to the stake amount
\* when the three checks hold, and otherwise apply fails and no validator is
\* registered.
C35_SelfBondRegisters ==
    SelfBond
        => IF SelfBondChecks THEN SelfBondRegistered
           ELSE dlg.ret = "Err" /\ staking.validators = dlg.before.validators

\* C35, amended: the validator is registered at the current height with
\* td_power equal to the stake amount when the three checks hold, the power
\* check of the table passes and the address is not registered yet; in every
\* other case apply fails and no validator is registered.
C35_SelfBondChecked ==
    SelfBond
        => IF /\ SelfBondChecks
              /\ dlg.env.power_ok
              /\ hex_encode_upper(dlg.self[1].body.validator_staking[1].td_addr)
                    \notin DOMAIN dlg.before.validators
           THEN SelfBondRegistered
           ELSE dlg.ret = "Err" /\ staking.validators = dlg.before.validators

\* A validator was registered with a stake of 2 and the delegation went through.
C35_Witness ==
    /\ SelfBond
    /\ SelfBondChecks
    /\ SelfBondRegistered
    /\ dlg.context.am = 2
    /\ dlg.ret = "Ok"


\* C36: when the signature of the operation does not verify against the
\* delegator key, apply returns an error, Staking::delegate is not called, no
\* validator is registered and Staking is as it was.
C36_SignatureFirst ==
    dlg.ret # "none" /\ ~DelegationOps_verify(dlg.self[1])
        => /\ dlg.ret = "Err"
           /\ dlg.delegated = <<>>
           /\ staking = dlg.before

\* A self-bond signed with another key was refused although its context
\* pays enough for the validator to be registered and nothing else fails.
C36_Witness ==
    /\ dlg.ret = "Err"
    /\ dlg.self = Some(Delegation("D1", "B2", Some(Validator("b2", TRUE)), "D2"))
    /\ dlg.context = [ok |-> TRUE, am |-> 2]
    /\ dlg.env = [power_ok |-> TRUE, delegate_ok |-> TRUE]
    /\ "B2" \notin DOMAIN dlg.before.validators
    /\ staking = dlg.before


\* C37: a check_tx of a request classified as a ledger transaction or as
\* unknown leaves the pending list, the status map and the open block of the
\* SubmissionServer, the ledger and the transaction history as they were,
\* whatever code it answers with.
C37_CheckTxReadOnly ==
    [][resp'.cb = "check_tx" /\ resp'.req[1].catalog \in {"FindoraTx", "Unknown"}
        => /\ UNCHANGED <<block, pending_txns, txn_status, committed_state>>
           /\ UNCHANGED <<tx_history, pool>>
           /\ UNCHANGED <<txs, utxos, tokens, issuance_num, next_index>>]_vars

\* A ledger transaction that is pending in the open block and recorded in
\* the history was checked and refused.
C37_Witness ==
    /\ resp.cb = "check_tx"
    /\ resp.kind = "New"
    /\ resp.req[1].catalog = "FindoraTx"
    /\ resp.code = 1
    /\ block # None
    /\ pending_txns # <<>>
    /\ resp.req[1].tx # None
    /\ hash_tm_rawbytes(resp.req[1].tx[1]) \in tx_history


MaxATransfers == 2    \* transfers of a transaction
MaxAOutputs   == 2    \* outputs of a transfer

AInputLists == {<<>>, <<FRA(1, "D1")>>, <<FRA(1, "D1"), FRA(1, "D2")>>}

AOutputRecords ==
    {FRA(1, COINBASE_PRINCIPAL_PK), FRA(U64_MAX, COINBASE_PRINCIPAL_PK),
     FRA(U64_MAX, "D2")}

ATransfers(o) ==
    {TransferAsset(ins, outs) :
        ins \in AInputLists,
        outs \in UNION {SeqsOf(AOutputRecords, k) : k \in 0..o}}

\* One Delegation of D1 and at most n transfers of at most o outputs.
AmountTxns(n, o) ==
    {DelegationTransaction(<<PlainDelegation>> \o xs) :
        xs \in UNION {SeqsOf(ATransfers(o), k) : k \in 0..n}}

\* tx without its transfers that have no input.
WithoutEmptyTransfers(tx) ==
    DelegationTransaction(
        SelectSeq(tx.body.operations,
                  LAMBDA op : ~(op.type = "TransferAsset"
                                /\ op.body.transfer.inputs = <<>>)))

\* The sum of what the code adds up, in the integers.
TrueSum(tx) == AmountOf(tx, QualifyingOutputs(tx, "D1"))

InitAmount == ServerIdle /\ LedgerIdle /\ DelegationIdle /\ AbciIdle /\ LockIdle

CheckDelegationContext(tx, overflow_checks) ==
    /\ amt.ret = "none"
    /\ LET owner == DelegationOwners(tx.body.operations)
           r == check_delegation_context(tx)
           outcome == IF Len(owner) = 1 /\ IndexPanics(tx.body.operations, owner[1])
                  THEN "PanicIndex"
                  ELSE IF Len(owner) = 1 /\ overflow_checks /\ TrueSum(tx) > U64_MAX
                  THEN "PanicOverflow"
                  ELSE IF r.ok THEN "Ok" ELSE "Err"
       IN  amt' = [ret |-> outcome,
                   tx |-> Some(tx),
                   context |-> IF outcome \in {"Ok", "Err"} THEN r ELSE NoContext.context,
                   overflow_checks |-> overflow_checks]
    /\ UNCHANGED <<srvVars, ledVars, abciVars, lockVars, ordVars, staking, dlg>>

NextAmount ==
    /\ amt.ret = "none"
    /\ \E tx \in AmountTxns(MaxATransfers, MaxAOutputs), overflow_checks \in BOOLEAN :
          CheckDelegationContext(tx, overflow_checks)

SpecAmount == InitAmount /\ [][NextAmount]_vars

\* C39: the amount that check_delegation_context returns is the sum of the
\* qualifying output amounts in the integers, so it is not less than any of
\* them, and outputs that sum to more than U64_MAX give no smaller amount.
C39_NoWrapAround ==
    amt.ret = "Ok"
        => /\ amt.context.am = TrueSum(amt.tx[1])
           /\ \A kj \in QualifyingOutputs(amt.tx[1], "D1") :
                 amt.context.am >= AmountOf(amt.tx[1], {kj})

\* C40: for a transaction with a transfer that has no input,
\* check_delegation_context does not fail on the index of the first input,
\* and returns what it returns for the transaction without such transfers.
C40_NoIndexOutOfRange ==
    /\ amt.ret # "PanicIndex"
    /\ amt.ret \in {"Ok", "Err"}
          => amt.context = check_delegation_context(WithoutEmptyTransfers(amt.tx[1]))

\* A transfer without inputs that pays the coinbase principal was in the
\* transaction next to a qualifying transfer; the stake is what the latter pays.
C40_Witness ==
    /\ amt.ret = "Ok"
    /\ amt.tx = Some(DelegationTransaction(
          <<PlainDelegation,
            TransferAsset(<<>>, <<FRA(1, COINBASE_PRINCIPAL_PK)>>),
            TransferAsset(<<FRA(1, "D1")>>, <<FRA(1, COINBASE_PRINCIPAL_PK)>>)>>))
    /\ amt.context = [ok |-> TRUE, am |-> 1]

====
